---- MODULE Spec2Model ----
(***************************************************************************)
(* Model of risc_git_auto_pushes_commit.py: the path classifier, the      *)
(* per-category commit orchestration (process_category) and the main      *)
(* procedure, together with the part of git's behaviour that the script   *)
(* relies on (index, working tree, commit of the whole index).            *)
(*                                                                         *)
(* Text (paths, prompt answers, analysis fields, messages) is modelled as *)
(* sequences of characters, so that endswith/startswith/in/lower/strip/   *)
(* isdigit/int/split are computed on the characters.  A character is a    *)
(* one-character string; characters that cannot be written that way are   *)
(* named by their code point ("U+00A0").                                  *)
(***************************************************************************)
EXTENDS Integers, Sequences, FiniteSets, TLC

(***************************************************************************)
(* Text helpers (Python str methods used by the script)                   *)
(***************************************************************************)
\* The characters of the model: Basic Latin, Latin-1 Supplement, Latin
\* Extended-A, Greek and Coptic, Cyrillic U+0400..U+045F, the combining dot
\* U+0307, the Kelvin sign U+212A, every whitespace character and every
\* digit character of Unicode.  The tables below hold, for these characters,
\* what Python's str methods do with them.

\* Characters that str.lower() changes, each with its lower-case text
\* (U+0130 becomes "i" followed by the combining dot U+0307).
LowerPairs ==
    {<<"A", <<"a">>>>, <<"B", <<"b">>>>, <<"C", <<"c">>>>, <<"D", <<"d">>>>, <<"E", <<"e">>>>,
    <<"F", <<"f">>>>, <<"G", <<"g">>>>, <<"H", <<"h">>>>, <<"I", <<"i">>>>, <<"J", <<"j">>>>,
    <<"K", <<"k">>>>, <<"L", <<"l">>>>, <<"M", <<"m">>>>, <<"N", <<"n">>>>, <<"O", <<"o">>>>,
    <<"P", <<"p">>>>, <<"Q", <<"q">>>>, <<"R", <<"r">>>>, <<"S", <<"s">>>>, <<"T", <<"t">>>>,
    <<"U", <<"u">>>>, <<"V", <<"v">>>>, <<"W", <<"w">>>>, <<"X", <<"x">>>>, <<"Y", <<"y">>>>,
    <<"Z", <<"z">>>>, <<"U+00C0", <<"U+00E0">>>>, <<"U+00C1", <<"U+00E1">>>>,
    <<"U+00C2", <<"U+00E2">>>>, <<"U+00C3", <<"U+00E3">>>>, <<"U+00C4", <<"U+00E4">>>>,
    <<"U+00C5", <<"U+00E5">>>>, <<"U+00C6", <<"U+00E6">>>>, <<"U+00C7", <<"U+00E7">>>>,
    <<"U+00C8", <<"U+00E8">>>>, <<"U+00C9", <<"U+00E9">>>>, <<"U+00CA", <<"U+00EA">>>>,
    <<"U+00CB", <<"U+00EB">>>>, <<"U+00CC", <<"U+00EC">>>>, <<"U+00CD", <<"U+00ED">>>>,
    <<"U+00CE", <<"U+00EE">>>>, <<"U+00CF", <<"U+00EF">>>>, <<"U+00D0", <<"U+00F0">>>>,
    <<"U+00D1", <<"U+00F1">>>>, <<"U+00D2", <<"U+00F2">>>>, <<"U+00D3", <<"U+00F3">>>>,
    <<"U+00D4", <<"U+00F4">>>>, <<"U+00D5", <<"U+00F5">>>>, <<"U+00D6", <<"U+00F6">>>>,
    <<"U+00D8", <<"U+00F8">>>>, <<"U+00D9", <<"U+00F9">>>>, <<"U+00DA", <<"U+00FA">>>>,
    <<"U+00DB", <<"U+00FB">>>>, <<"U+00DC", <<"U+00FC">>>>, <<"U+00DD", <<"U+00FD">>>>,
    <<"U+00DE", <<"U+00FE">>>>, <<"U+0100", <<"U+0101">>>>, <<"U+0102", <<"U+0103">>>>,
    <<"U+0104", <<"U+0105">>>>, <<"U+0106", <<"U+0107">>>>, <<"U+0108", <<"U+0109">>>>,
    <<"U+010A", <<"U+010B">>>>, <<"U+010C", <<"U+010D">>>>, <<"U+010E", <<"U+010F">>>>,
    <<"U+0110", <<"U+0111">>>>, <<"U+0112", <<"U+0113">>>>, <<"U+0114", <<"U+0115">>>>,
    <<"U+0116", <<"U+0117">>>>, <<"U+0118", <<"U+0119">>>>, <<"U+011A", <<"U+011B">>>>,
    <<"U+011C", <<"U+011D">>>>, <<"U+011E", <<"U+011F">>>>, <<"U+0120", <<"U+0121">>>>,
    <<"U+0122", <<"U+0123">>>>, <<"U+0124", <<"U+0125">>>>, <<"U+0126", <<"U+0127">>>>,
    <<"U+0128", <<"U+0129">>>>, <<"U+012A", <<"U+012B">>>>, <<"U+012C", <<"U+012D">>>>,
    <<"U+012E", <<"U+012F">>>>, <<"U+0130", <<"i","U+0307">>>>, <<"U+0132", <<"U+0133">>>>,
    <<"U+0134", <<"U+0135">>>>, <<"U+0136", <<"U+0137">>>>, <<"U+0139", <<"U+013A">>>>,
    <<"U+013B", <<"U+013C">>>>, <<"U+013D", <<"U+013E">>>>, <<"U+013F", <<"U+0140">>>>,
    <<"U+0141", <<"U+0142">>>>, <<"U+0143", <<"U+0144">>>>, <<"U+0145", <<"U+0146">>>>,
    <<"U+0147", <<"U+0148">>>>, <<"U+014A", <<"U+014B">>>>, <<"U+014C", <<"U+014D">>>>,
    <<"U+014E", <<"U+014F">>>>, <<"U+0150", <<"U+0151">>>>, <<"U+0152", <<"U+0153">>>>,
    <<"U+0154", <<"U+0155">>>>, <<"U+0156", <<"U+0157">>>>, <<"U+0158", <<"U+0159">>>>,
    <<"U+015A", <<"U+015B">>>>, <<"U+015C", <<"U+015D">>>>, <<"U+015E", <<"U+015F">>>>,
    <<"U+0160", <<"U+0161">>>>, <<"U+0162", <<"U+0163">>>>, <<"U+0164", <<"U+0165">>>>,
    <<"U+0166", <<"U+0167">>>>, <<"U+0168", <<"U+0169">>>>, <<"U+016A", <<"U+016B">>>>,
    <<"U+016C", <<"U+016D">>>>, <<"U+016E", <<"U+016F">>>>, <<"U+0170", <<"U+0171">>>>,
    <<"U+0172", <<"U+0173">>>>, <<"U+0174", <<"U+0175">>>>, <<"U+0176", <<"U+0177">>>>,
    <<"U+0178", <<"U+00FF">>>>, <<"U+0179", <<"U+017A">>>>, <<"U+017B", <<"U+017C">>>>,
    <<"U+017D", <<"U+017E">>>>, <<"U+0370", <<"U+0371">>>>, <<"U+0372", <<"U+0373">>>>,
    <<"U+0376", <<"U+0377">>>>, <<"U+037F", <<"U+03F3">>>>, <<"U+0386", <<"U+03AC">>>>,
    <<"U+0388", <<"U+03AD">>>>, <<"U+0389", <<"U+03AE">>>>, <<"U+038A", <<"U+03AF">>>>,
    <<"U+038C", <<"U+03CC">>>>, <<"U+038E", <<"U+03CD">>>>, <<"U+038F", <<"U+03CE">>>>,
    <<"U+0391", <<"U+03B1">>>>, <<"U+0392", <<"U+03B2">>>>, <<"U+0393", <<"U+03B3">>>>,
    <<"U+0394", <<"U+03B4">>>>, <<"U+0395", <<"U+03B5">>>>, <<"U+0396", <<"U+03B6">>>>,
    <<"U+0397", <<"U+03B7">>>>, <<"U+0398", <<"U+03B8">>>>, <<"U+0399", <<"U+03B9">>>>,
    <<"U+039A", <<"U+03BA">>>>, <<"U+039B", <<"U+03BB">>>>, <<"U+039C", <<"U+03BC">>>>,
    <<"U+039D", <<"U+03BD">>>>, <<"U+039E", <<"U+03BE">>>>, <<"U+039F", <<"U+03BF">>>>,
    <<"U+03A0", <<"U+03C0">>>>, <<"U+03A1", <<"U+03C1">>>>, <<"U+03A3", <<"U+03C3">>>>,
    <<"U+03A4", <<"U+03C4">>>>, <<"U+03A5", <<"U+03C5">>>>, <<"U+03A6", <<"U+03C6">>>>,
    <<"U+03A7", <<"U+03C7">>>>, <<"U+03A8", <<"U+03C8">>>>, <<"U+03A9", <<"U+03C9">>>>,
    <<"U+03AA", <<"U+03CA">>>>, <<"U+03AB", <<"U+03CB">>>>, <<"U+03CF", <<"U+03D7">>>>,
    <<"U+03D8", <<"U+03D9">>>>, <<"U+03DA", <<"U+03DB">>>>, <<"U+03DC", <<"U+03DD">>>>,
    <<"U+03DE", <<"U+03DF">>>>, <<"U+03E0", <<"U+03E1">>>>, <<"U+03E2", <<"U+03E3">>>>,
    <<"U+03E4", <<"U+03E5">>>>, <<"U+03E6", <<"U+03E7">>>>, <<"U+03E8", <<"U+03E9">>>>,
    <<"U+03EA", <<"U+03EB">>>>, <<"U+03EC", <<"U+03ED">>>>, <<"U+03EE", <<"U+03EF">>>>,
    <<"U+03F4", <<"U+03B8">>>>, <<"U+03F7", <<"U+03F8">>>>, <<"U+03F9", <<"U+03F2">>>>,
    <<"U+03FA", <<"U+03FB">>>>, <<"U+03FD", <<"U+037B">>>>, <<"U+03FE", <<"U+037C">>>>,
    <<"U+03FF", <<"U+037D">>>>, <<"U+0400", <<"U+0450">>>>, <<"U+0401", <<"U+0451">>>>,
    <<"U+0402", <<"U+0452">>>>, <<"U+0403", <<"U+0453">>>>, <<"U+0404", <<"U+0454">>>>,
    <<"U+0405", <<"U+0455">>>>, <<"U+0406", <<"U+0456">>>>, <<"U+0407", <<"U+0457">>>>,
    <<"U+0408", <<"U+0458">>>>, <<"U+0409", <<"U+0459">>>>, <<"U+040A", <<"U+045A">>>>,
    <<"U+040B", <<"U+045B">>>>, <<"U+040C", <<"U+045C">>>>, <<"U+040D", <<"U+045D">>>>,
    <<"U+040E", <<"U+045E">>>>, <<"U+040F", <<"U+045F">>>>, <<"U+0410", <<"U+0430">>>>,
    <<"U+0411", <<"U+0431">>>>, <<"U+0412", <<"U+0432">>>>, <<"U+0413", <<"U+0433">>>>,
    <<"U+0414", <<"U+0434">>>>, <<"U+0415", <<"U+0435">>>>, <<"U+0416", <<"U+0436">>>>,
    <<"U+0417", <<"U+0437">>>>, <<"U+0418", <<"U+0438">>>>, <<"U+0419", <<"U+0439">>>>,
    <<"U+041A", <<"U+043A">>>>, <<"U+041B", <<"U+043B">>>>, <<"U+041C", <<"U+043C">>>>,
    <<"U+041D", <<"U+043D">>>>, <<"U+041E", <<"U+043E">>>>, <<"U+041F", <<"U+043F">>>>,
    <<"U+0420", <<"U+0440">>>>, <<"U+0421", <<"U+0441">>>>, <<"U+0422", <<"U+0442">>>>,
    <<"U+0423", <<"U+0443">>>>, <<"U+0424", <<"U+0444">>>>, <<"U+0425", <<"U+0445">>>>,
    <<"U+0426", <<"U+0446">>>>, <<"U+0427", <<"U+0447">>>>, <<"U+0428", <<"U+0448">>>>,
    <<"U+0429", <<"U+0449">>>>, <<"U+042A", <<"U+044A">>>>, <<"U+042B", <<"U+044B">>>>,
    <<"U+042C", <<"U+044C">>>>, <<"U+042D", <<"U+044D">>>>, <<"U+042E", <<"U+044E">>>>,
    <<"U+042F", <<"U+044F">>>>, <<"U+212A", <<"k">>>> }

\* Case-ignorable characters: str.lower() skips them when it looks for the
\* letters around a capital sigma.
CaseIgnorable ==
    {"'", ".", ":", "^", "U+0060", "U+00A8", "U+00AD", "U+00AF", "U+00B4", "U+00B7", "U+00B8",
    "U+0307", "U+0374", "U+0375", "U+037A", "U+0384", "U+0385", "U+0387" }

\* Cased characters (letters with a case) that are not case-ignorable.
Cased ==
    {"A", "B", "C", "D", "E", "F", "G", "H", "I", "J", "K", "L", "M", "N", "O", "P", "Q", "R",
    "S", "T", "U", "V", "W", "X", "Y", "Z", "a", "b", "c", "d", "e", "f", "g", "h", "i", "j",
    "k", "l", "m", "n", "o", "p", "q", "r", "s", "t", "u", "v", "w", "x", "y", "z", "U+00AA",
    "U+00B5", "U+00BA", "U+00C0", "U+00C1", "U+00C2", "U+00C3", "U+00C4", "U+00C5", "U+00C6",
    "U+00C7", "U+00C8", "U+00C9", "U+00CA", "U+00CB", "U+00CC", "U+00CD", "U+00CE", "U+00CF",
    "U+00D0", "U+00D1", "U+00D2", "U+00D3", "U+00D4", "U+00D5", "U+00D6", "U+00D8", "U+00D9",
    "U+00DA", "U+00DB", "U+00DC", "U+00DD", "U+00DE", "U+00DF", "U+00E0", "U+00E1", "U+00E2",
    "U+00E3", "U+00E4", "U+00E5", "U+00E6", "U+00E7", "U+00E8", "U+00E9", "U+00EA", "U+00EB",
    "U+00EC", "U+00ED", "U+00EE", "U+00EF", "U+00F0", "U+00F1", "U+00F2", "U+00F3", "U+00F4",
    "U+00F5", "U+00F6", "U+00F8", "U+00F9", "U+00FA", "U+00FB", "U+00FC", "U+00FD", "U+00FE",
    "U+00FF", "U+0100", "U+0101", "U+0102", "U+0103", "U+0104", "U+0105", "U+0106", "U+0107",
    "U+0108", "U+0109", "U+010A", "U+010B", "U+010C", "U+010D", "U+010E", "U+010F", "U+0110",
    "U+0111", "U+0112", "U+0113", "U+0114", "U+0115", "U+0116", "U+0117", "U+0118", "U+0119",
    "U+011A", "U+011B", "U+011C", "U+011D", "U+011E", "U+011F", "U+0120", "U+0121", "U+0122",
    "U+0123", "U+0124", "U+0125", "U+0126", "U+0127", "U+0128", "U+0129", "U+012A", "U+012B",
    "U+012C", "U+012D", "U+012E", "U+012F", "U+0130", "U+0131", "U+0132", "U+0133", "U+0134",
    "U+0135", "U+0136", "U+0137", "U+0138", "U+0139", "U+013A", "U+013B", "U+013C", "U+013D",
    "U+013E", "U+013F", "U+0140", "U+0141", "U+0142", "U+0143", "U+0144", "U+0145", "U+0146",
    "U+0147", "U+0148", "U+0149", "U+014A", "U+014B", "U+014C", "U+014D", "U+014E", "U+014F",
    "U+0150", "U+0151", "U+0152", "U+0153", "U+0154", "U+0155", "U+0156", "U+0157", "U+0158",
    "U+0159", "U+015A", "U+015B", "U+015C", "U+015D", "U+015E", "U+015F", "U+0160", "U+0161",
    "U+0162", "U+0163", "U+0164", "U+0165", "U+0166", "U+0167", "U+0168", "U+0169", "U+016A",
    "U+016B", "U+016C", "U+016D", "U+016E", "U+016F", "U+0170", "U+0171", "U+0172", "U+0173",
    "U+0174", "U+0175", "U+0176", "U+0177", "U+0178", "U+0179", "U+017A", "U+017B", "U+017C",
    "U+017D", "U+017E", "U+017F", "U+0370", "U+0371", "U+0372", "U+0373", "U+0376", "U+0377",
    "U+037B", "U+037C", "U+037D", "U+037F", "U+0386", "U+0388", "U+0389", "U+038A", "U+038C",
    "U+038E", "U+038F", "U+0390", "U+0391", "U+0392", "U+0393", "U+0394", "U+0395", "U+0396",
    "U+0397", "U+0398", "U+0399", "U+039A", "U+039B", "U+039C", "U+039D", "U+039E", "U+039F",
    "U+03A0", "U+03A1", "U+03A3", "U+03A4", "U+03A5", "U+03A6", "U+03A7", "U+03A8", "U+03A9",
    "U+03AA", "U+03AB", "U+03AC", "U+03AD", "U+03AE", "U+03AF", "U+03B0", "U+03B1", "U+03B2",
    "U+03B3", "U+03B4", "U+03B5", "U+03B6", "U+03B7", "U+03B8", "U+03B9", "U+03BA", "U+03BB",
    "U+03BC", "U+03BD", "U+03BE", "U+03BF", "U+03C0", "U+03C1", "U+03C2", "U+03C3", "U+03C4",
    "U+03C5", "U+03C6", "U+03C7", "U+03C8", "U+03C9", "U+03CA", "U+03CB", "U+03CC", "U+03CD",
    "U+03CE", "U+03CF", "U+03D0", "U+03D1", "U+03D2", "U+03D3", "U+03D4", "U+03D5", "U+03D6",
    "U+03D7", "U+03D8", "U+03D9", "U+03DA", "U+03DB", "U+03DC", "U+03DD", "U+03DE", "U+03DF",
    "U+03E0", "U+03E1", "U+03E2", "U+03E3", "U+03E4", "U+03E5", "U+03E6", "U+03E7", "U+03E8",
    "U+03E9", "U+03EA", "U+03EB", "U+03EC", "U+03ED", "U+03EE", "U+03EF", "U+03F0", "U+03F1",
    "U+03F2", "U+03F3", "U+03F4", "U+03F5", "U+03F7", "U+03F8", "U+03F9", "U+03FA", "U+03FB",
    "U+03FC", "U+03FD", "U+03FE", "U+03FF", "U+0400", "U+0401", "U+0402", "U+0403", "U+0404",
    "U+0405", "U+0406", "U+0407", "U+0408", "U+0409", "U+040A", "U+040B", "U+040C", "U+040D",
    "U+040E", "U+040F", "U+0410", "U+0411", "U+0412", "U+0413", "U+0414", "U+0415", "U+0416",
    "U+0417", "U+0418", "U+0419", "U+041A", "U+041B", "U+041C", "U+041D", "U+041E", "U+041F",
    "U+0420", "U+0421", "U+0422", "U+0423", "U+0424", "U+0425", "U+0426", "U+0427", "U+0428",
    "U+0429", "U+042A", "U+042B", "U+042C", "U+042D", "U+042E", "U+042F", "U+0430", "U+0431",
    "U+0432", "U+0433", "U+0434", "U+0435", "U+0436", "U+0437", "U+0438", "U+0439", "U+043A",
    "U+043B", "U+043C", "U+043D", "U+043E", "U+043F", "U+0440", "U+0441", "U+0442", "U+0443",
    "U+0444", "U+0445", "U+0446", "U+0447", "U+0448", "U+0449", "U+044A", "U+044B", "U+044C",
    "U+044D", "U+044E", "U+044F", "U+0450", "U+0451", "U+0452", "U+0453", "U+0454", "U+0455",
    "U+0456", "U+0457", "U+0458", "U+0459", "U+045A", "U+045B", "U+045C", "U+045D", "U+045E",
    "U+045F", "U+212A" }

\* Decimal digits (accepted by str.isdigit() and by int()): the runs 0..9 of
\* every script; the value of a digit is its place in its run.
DecimalRuns ==
    {<<"0","1","2","3","4","5","6","7","8","9">>,
    <<"U+0660","U+0661","U+0662","U+0663","U+0664","U+0665","U+0666","U+0667","U+0668","U+0669">>,
    <<"U+06F0","U+06F1","U+06F2","U+06F3","U+06F4","U+06F5","U+06F6","U+06F7","U+06F8","U+06F9">>,
    <<"U+07C0","U+07C1","U+07C2","U+07C3","U+07C4","U+07C5","U+07C6","U+07C7","U+07C8","U+07C9">>,
    <<"U+0966","U+0967","U+0968","U+0969","U+096A","U+096B","U+096C","U+096D","U+096E","U+096F">>,
    <<"U+09E6","U+09E7","U+09E8","U+09E9","U+09EA","U+09EB","U+09EC","U+09ED","U+09EE","U+09EF">>,
    <<"U+0A66","U+0A67","U+0A68","U+0A69","U+0A6A","U+0A6B","U+0A6C","U+0A6D","U+0A6E","U+0A6F">>,
    <<"U+0AE6","U+0AE7","U+0AE8","U+0AE9","U+0AEA","U+0AEB","U+0AEC","U+0AED","U+0AEE","U+0AEF">>,
    <<"U+0B66","U+0B67","U+0B68","U+0B69","U+0B6A","U+0B6B","U+0B6C","U+0B6D","U+0B6E","U+0B6F">>,
    <<"U+0BE6","U+0BE7","U+0BE8","U+0BE9","U+0BEA","U+0BEB","U+0BEC","U+0BED","U+0BEE","U+0BEF">>,
    <<"U+0C66","U+0C67","U+0C68","U+0C69","U+0C6A","U+0C6B","U+0C6C","U+0C6D","U+0C6E","U+0C6F">>,
    <<"U+0CE6","U+0CE7","U+0CE8","U+0CE9","U+0CEA","U+0CEB","U+0CEC","U+0CED","U+0CEE","U+0CEF">>,
    <<"U+0D66","U+0D67","U+0D68","U+0D69","U+0D6A","U+0D6B","U+0D6C","U+0D6D","U+0D6E","U+0D6F">>,
    <<"U+0DE6","U+0DE7","U+0DE8","U+0DE9","U+0DEA","U+0DEB","U+0DEC","U+0DED","U+0DEE","U+0DEF">>,
    <<"U+0E50","U+0E51","U+0E52","U+0E53","U+0E54","U+0E55","U+0E56","U+0E57","U+0E58","U+0E59">>,
    <<"U+0ED0","U+0ED1","U+0ED2","U+0ED3","U+0ED4","U+0ED5","U+0ED6","U+0ED7","U+0ED8","U+0ED9">>,
    <<"U+0F20","U+0F21","U+0F22","U+0F23","U+0F24","U+0F25","U+0F26","U+0F27","U+0F28","U+0F29">>,
    <<"U+1040","U+1041","U+1042","U+1043","U+1044","U+1045","U+1046","U+1047","U+1048","U+1049">>,
    <<"U+1090","U+1091","U+1092","U+1093","U+1094","U+1095","U+1096","U+1097","U+1098","U+1099">>,
    <<"U+17E0","U+17E1","U+17E2","U+17E3","U+17E4","U+17E5","U+17E6","U+17E7","U+17E8","U+17E9">>,
    <<"U+1810","U+1811","U+1812","U+1813","U+1814","U+1815","U+1816","U+1817","U+1818","U+1819">>,
    <<"U+1946","U+1947","U+1948","U+1949","U+194A","U+194B","U+194C","U+194D","U+194E","U+194F">>,
    <<"U+19D0","U+19D1","U+19D2","U+19D3","U+19D4","U+19D5","U+19D6","U+19D7","U+19D8","U+19D9">>,
    <<"U+1A80","U+1A81","U+1A82","U+1A83","U+1A84","U+1A85","U+1A86","U+1A87","U+1A88","U+1A89">>,
    <<"U+1A90","U+1A91","U+1A92","U+1A93","U+1A94","U+1A95","U+1A96","U+1A97","U+1A98","U+1A99">>,
    <<"U+1B50","U+1B51","U+1B52","U+1B53","U+1B54","U+1B55","U+1B56","U+1B57","U+1B58","U+1B59">>,
    <<"U+1BB0","U+1BB1","U+1BB2","U+1BB3","U+1BB4","U+1BB5","U+1BB6","U+1BB7","U+1BB8","U+1BB9">>,
    <<"U+1C40","U+1C41","U+1C42","U+1C43","U+1C44","U+1C45","U+1C46","U+1C47","U+1C48","U+1C49">>,
    <<"U+1C50","U+1C51","U+1C52","U+1C53","U+1C54","U+1C55","U+1C56","U+1C57","U+1C58","U+1C59">>,
    <<"U+A620","U+A621","U+A622","U+A623","U+A624","U+A625","U+A626","U+A627","U+A628","U+A629">>,
    <<"U+A8D0","U+A8D1","U+A8D2","U+A8D3","U+A8D4","U+A8D5","U+A8D6","U+A8D7","U+A8D8","U+A8D9">>,
    <<"U+A900","U+A901","U+A902","U+A903","U+A904","U+A905","U+A906","U+A907","U+A908","U+A909">>,
    <<"U+A9D0","U+A9D1","U+A9D2","U+A9D3","U+A9D4","U+A9D5","U+A9D6","U+A9D7","U+A9D8","U+A9D9">>,
    <<"U+A9F0","U+A9F1","U+A9F2","U+A9F3","U+A9F4","U+A9F5","U+A9F6","U+A9F7","U+A9F8","U+A9F9">>,
    <<"U+AA50","U+AA51","U+AA52","U+AA53","U+AA54","U+AA55","U+AA56","U+AA57","U+AA58","U+AA59">>,
    <<"U+ABF0","U+ABF1","U+ABF2","U+ABF3","U+ABF4","U+ABF5","U+ABF6","U+ABF7","U+ABF8","U+ABF9">>,
    <<"U+FF10","U+FF11","U+FF12","U+FF13","U+FF14","U+FF15","U+FF16","U+FF17","U+FF18","U+FF19">>,
    <<"U+104A0","U+104A1","U+104A2","U+104A3","U+104A4","U+104A5","U+104A6","U+104A7","U+104A8","U+104A9">>,
    <<"U+10D30","U+10D31","U+10D32","U+10D33","U+10D34","U+10D35","U+10D36","U+10D37","U+10D38","U+10D39">>,
    <<"U+11066","U+11067","U+11068","U+11069","U+1106A","U+1106B","U+1106C","U+1106D","U+1106E","U+1106F">>,
    <<"U+110F0","U+110F1","U+110F2","U+110F3","U+110F4","U+110F5","U+110F6","U+110F7","U+110F8","U+110F9">>,
    <<"U+11136","U+11137","U+11138","U+11139","U+1113A","U+1113B","U+1113C","U+1113D","U+1113E","U+1113F">>,
    <<"U+111D0","U+111D1","U+111D2","U+111D3","U+111D4","U+111D5","U+111D6","U+111D7","U+111D8","U+111D9">>,
    <<"U+112F0","U+112F1","U+112F2","U+112F3","U+112F4","U+112F5","U+112F6","U+112F7","U+112F8","U+112F9">>,
    <<"U+11450","U+11451","U+11452","U+11453","U+11454","U+11455","U+11456","U+11457","U+11458","U+11459">>,
    <<"U+114D0","U+114D1","U+114D2","U+114D3","U+114D4","U+114D5","U+114D6","U+114D7","U+114D8","U+114D9">>,
    <<"U+11650","U+11651","U+11652","U+11653","U+11654","U+11655","U+11656","U+11657","U+11658","U+11659">>,
    <<"U+116C0","U+116C1","U+116C2","U+116C3","U+116C4","U+116C5","U+116C6","U+116C7","U+116C8","U+116C9">>,
    <<"U+11730","U+11731","U+11732","U+11733","U+11734","U+11735","U+11736","U+11737","U+11738","U+11739">>,
    <<"U+118E0","U+118E1","U+118E2","U+118E3","U+118E4","U+118E5","U+118E6","U+118E7","U+118E8","U+118E9">>,
    <<"U+11950","U+11951","U+11952","U+11953","U+11954","U+11955","U+11956","U+11957","U+11958","U+11959">>,
    <<"U+11C50","U+11C51","U+11C52","U+11C53","U+11C54","U+11C55","U+11C56","U+11C57","U+11C58","U+11C59">>,
    <<"U+11D50","U+11D51","U+11D52","U+11D53","U+11D54","U+11D55","U+11D56","U+11D57","U+11D58","U+11D59">>,
    <<"U+11DA0","U+11DA1","U+11DA2","U+11DA3","U+11DA4","U+11DA5","U+11DA6","U+11DA7","U+11DA8","U+11DA9">>,
    <<"U+16A60","U+16A61","U+16A62","U+16A63","U+16A64","U+16A65","U+16A66","U+16A67","U+16A68","U+16A69">>,
    <<"U+16AC0","U+16AC1","U+16AC2","U+16AC3","U+16AC4","U+16AC5","U+16AC6","U+16AC7","U+16AC8","U+16AC9">>,
    <<"U+16B50","U+16B51","U+16B52","U+16B53","U+16B54","U+16B55","U+16B56","U+16B57","U+16B58","U+16B59">>,
    <<"U+1D7CE","U+1D7CF","U+1D7D0","U+1D7D1","U+1D7D2","U+1D7D3","U+1D7D4","U+1D7D5","U+1D7D6","U+1D7D7">>,
    <<"U+1D7D8","U+1D7D9","U+1D7DA","U+1D7DB","U+1D7DC","U+1D7DD","U+1D7DE","U+1D7DF","U+1D7E0","U+1D7E1">>,
    <<"U+1D7E2","U+1D7E3","U+1D7E4","U+1D7E5","U+1D7E6","U+1D7E7","U+1D7E8","U+1D7E9","U+1D7EA","U+1D7EB">>,
    <<"U+1D7EC","U+1D7ED","U+1D7EE","U+1D7EF","U+1D7F0","U+1D7F1","U+1D7F2","U+1D7F3","U+1D7F4","U+1D7F5">>,
    <<"U+1D7F6","U+1D7F7","U+1D7F8","U+1D7F9","U+1D7FA","U+1D7FB","U+1D7FC","U+1D7FD","U+1D7FE","U+1D7FF">>,
    <<"U+1E140","U+1E141","U+1E142","U+1E143","U+1E144","U+1E145","U+1E146","U+1E147","U+1E148","U+1E149">>,
    <<"U+1E2F0","U+1E2F1","U+1E2F2","U+1E2F3","U+1E2F4","U+1E2F5","U+1E2F6","U+1E2F7","U+1E2F8","U+1E2F9">>,
    <<"U+1E950","U+1E951","U+1E952","U+1E953","U+1E954","U+1E955","U+1E956","U+1E957","U+1E958","U+1E959">>,
    <<"U+1FBF0","U+1FBF1","U+1FBF2","U+1FBF3","U+1FBF4","U+1FBF5","U+1FBF6","U+1FBF7","U+1FBF8","U+1FBF9">> }

\* Characters for which str.isdigit() is true and int() fails: superscript
\* and subscript digits, circled and parenthesized digits and the like.
DigitOnlyChars ==
    {"U+00B2", "U+00B3", "U+00B9", "U+1369", "U+136A", "U+136B", "U+136C", "U+136D", "U+136E",
    "U+136F", "U+1370", "U+1371", "U+19DA", "U+2070", "U+2074", "U+2075", "U+2076", "U+2077",
    "U+2078", "U+2079", "U+2080", "U+2081", "U+2082", "U+2083", "U+2084", "U+2085", "U+2086",
    "U+2087", "U+2088", "U+2089", "U+2460", "U+2461", "U+2462", "U+2463", "U+2464", "U+2465",
    "U+2466", "U+2467", "U+2468", "U+2474", "U+2475", "U+2476", "U+2477", "U+2478", "U+2479",
    "U+247A", "U+247B", "U+247C", "U+2488", "U+2489", "U+248A", "U+248B", "U+248C", "U+248D",
    "U+248E", "U+248F", "U+2490", "U+24EA", "U+24F5", "U+24F6", "U+24F7", "U+24F8", "U+24F9",
    "U+24FA", "U+24FB", "U+24FC", "U+24FD", "U+24FF", "U+2776", "U+2777", "U+2778", "U+2779",
    "U+277A", "U+277B", "U+277C", "U+277D", "U+277E", "U+2780", "U+2781", "U+2782", "U+2783",
    "U+2784", "U+2785", "U+2786", "U+2787", "U+2788", "U+278A", "U+278B", "U+278C", "U+278D",
    "U+278E", "U+278F", "U+2790", "U+2791", "U+2792", "U+10A40", "U+10A41", "U+10A42",
    "U+10A43", "U+10E60", "U+10E61", "U+10E62", "U+10E63", "U+10E64", "U+10E65", "U+10E66",
    "U+10E67", "U+10E68", "U+11052", "U+11053", "U+11054", "U+11055", "U+11056", "U+11057",
    "U+11058", "U+11059", "U+1105A", "U+1F100", "U+1F101", "U+1F102", "U+1F103", "U+1F104",
    "U+1F105", "U+1F106", "U+1F107", "U+1F108", "U+1F109", "U+1F10A" }

\* Characters removed by str.strip(): every Unicode whitespace character.
WhiteChars ==
    {"\t", "\n", "U+000B", "\f", "\r", "U+001C", "U+001D", "U+001E", "U+001F", " ", "U+0085",
    "U+00A0", "U+1680", "U+2000", "U+2001", "U+2002", "U+2003", "U+2004", "U+2005", "U+2006",
    "U+2007", "U+2008", "U+2009", "U+200A", "U+2028", "U+2029", "U+202F", "U+205F", "U+3000" }

\* Characters that repr() writes as an escape (str.isprintable() is false),
\* each with the escape; tab, line feed and carriage return have their own.
ReprEscapes ==
    {<<"U+0000", <<"\\","x","0","0">>>>, <<"U+0001", <<"\\","x","0","1">>>>,
    <<"U+0002", <<"\\","x","0","2">>>>, <<"U+0003", <<"\\","x","0","3">>>>,
    <<"U+0004", <<"\\","x","0","4">>>>, <<"U+0005", <<"\\","x","0","5">>>>,
    <<"U+0006", <<"\\","x","0","6">>>>, <<"U+0007", <<"\\","x","0","7">>>>,
    <<"U+0008", <<"\\","x","0","8">>>>, <<"U+000B", <<"\\","x","0","b">>>>,
    <<"\f", <<"\\","x","0","c">>>>, <<"U+000E", <<"\\","x","0","e">>>>,
    <<"U+000F", <<"\\","x","0","f">>>>, <<"U+0010", <<"\\","x","1","0">>>>,
    <<"U+0011", <<"\\","x","1","1">>>>, <<"U+0012", <<"\\","x","1","2">>>>,
    <<"U+0013", <<"\\","x","1","3">>>>, <<"U+0014", <<"\\","x","1","4">>>>,
    <<"U+0015", <<"\\","x","1","5">>>>, <<"U+0016", <<"\\","x","1","6">>>>,
    <<"U+0017", <<"\\","x","1","7">>>>, <<"U+0018", <<"\\","x","1","8">>>>,
    <<"U+0019", <<"\\","x","1","9">>>>, <<"U+001A", <<"\\","x","1","a">>>>,
    <<"U+001B", <<"\\","x","1","b">>>>, <<"U+001C", <<"\\","x","1","c">>>>,
    <<"U+001D", <<"\\","x","1","d">>>>, <<"U+001E", <<"\\","x","1","e">>>>,
    <<"U+001F", <<"\\","x","1","f">>>>, <<"U+007F", <<"\\","x","7","f">>>>,
    <<"U+0080", <<"\\","x","8","0">>>>, <<"U+0081", <<"\\","x","8","1">>>>,
    <<"U+0082", <<"\\","x","8","2">>>>, <<"U+0083", <<"\\","x","8","3">>>>,
    <<"U+0084", <<"\\","x","8","4">>>>, <<"U+0085", <<"\\","x","8","5">>>>,
    <<"U+0086", <<"\\","x","8","6">>>>, <<"U+0087", <<"\\","x","8","7">>>>,
    <<"U+0088", <<"\\","x","8","8">>>>, <<"U+0089", <<"\\","x","8","9">>>>,
    <<"U+008A", <<"\\","x","8","a">>>>, <<"U+008B", <<"\\","x","8","b">>>>,
    <<"U+008C", <<"\\","x","8","c">>>>, <<"U+008D", <<"\\","x","8","d">>>>,
    <<"U+008E", <<"\\","x","8","e">>>>, <<"U+008F", <<"\\","x","8","f">>>>,
    <<"U+0090", <<"\\","x","9","0">>>>, <<"U+0091", <<"\\","x","9","1">>>>,
    <<"U+0092", <<"\\","x","9","2">>>>, <<"U+0093", <<"\\","x","9","3">>>>,
    <<"U+0094", <<"\\","x","9","4">>>>, <<"U+0095", <<"\\","x","9","5">>>>,
    <<"U+0096", <<"\\","x","9","6">>>>, <<"U+0097", <<"\\","x","9","7">>>>,
    <<"U+0098", <<"\\","x","9","8">>>>, <<"U+0099", <<"\\","x","9","9">>>>,
    <<"U+009A", <<"\\","x","9","a">>>>, <<"U+009B", <<"\\","x","9","b">>>>,
    <<"U+009C", <<"\\","x","9","c">>>>, <<"U+009D", <<"\\","x","9","d">>>>,
    <<"U+009E", <<"\\","x","9","e">>>>, <<"U+009F", <<"\\","x","9","f">>>>,
    <<"U+00A0", <<"\\","x","a","0">>>>, <<"U+00AD", <<"\\","x","a","d">>>>,
    <<"U+0378", <<"\\","u","0","3","7","8">>>>, <<"U+0379", <<"\\","u","0","3","7","9">>>>,
    <<"U+0380", <<"\\","u","0","3","8","0">>>>, <<"U+0381", <<"\\","u","0","3","8","1">>>>,
    <<"U+0382", <<"\\","u","0","3","8","2">>>>, <<"U+0383", <<"\\","u","0","3","8","3">>>>,
    <<"U+038B", <<"\\","u","0","3","8","b">>>>, <<"U+038D", <<"\\","u","0","3","8","d">>>>,
    <<"U+03A2", <<"\\","u","0","3","a","2">>>>, <<"U+1680", <<"\\","u","1","6","8","0">>>>,
    <<"U+2000", <<"\\","u","2","0","0","0">>>>, <<"U+2001", <<"\\","u","2","0","0","1">>>>,
    <<"U+2002", <<"\\","u","2","0","0","2">>>>, <<"U+2003", <<"\\","u","2","0","0","3">>>>,
    <<"U+2004", <<"\\","u","2","0","0","4">>>>, <<"U+2005", <<"\\","u","2","0","0","5">>>>,
    <<"U+2006", <<"\\","u","2","0","0","6">>>>, <<"U+2007", <<"\\","u","2","0","0","7">>>>,
    <<"U+2008", <<"\\","u","2","0","0","8">>>>, <<"U+2009", <<"\\","u","2","0","0","9">>>>,
    <<"U+200A", <<"\\","u","2","0","0","a">>>>, <<"U+2028", <<"\\","u","2","0","2","8">>>>,
    <<"U+2029", <<"\\","u","2","0","2","9">>>>, <<"U+202F", <<"\\","u","2","0","2","f">>>>,
    <<"U+205F", <<"\\","u","2","0","5","f">>>>, <<"U+3000", <<"\\","u","3","0","0","0">>>> }


\* sys.get_int_max_str_digits(): int() raises ValueError on a longer text.
MaxStrDigits == 4300

Range(s) == { s[i] : i \in DOMAIN s }

RECURSIVE Concat(_)
Concat(parts) == IF parts = << >> THEN << >> ELSE parts[1] \o Concat(Tail(parts))

UpperChars == { p[1] : p \in LowerPairs }

LowerOf == [ c \in UpperChars |-> (CHOOSE p \in LowerPairs : p[1] = c)[2] ]

\* The lower-case text of one character taken alone.
LowerChar(c) == IF c \in UpperChars THEN LowerOf[c] ELSE << c >>

\* The capital sigma at place i of s is in final position: the nearest
\* character before it that is not case-ignorable is cased, and the nearest
\* one after it, if any, is not.
FinalSigma(s, i) ==
    LET before == { j \in 1..(i - 1) : s[j] \notin CaseIgnorable }
        after == { j \in (i + 1)..Len(s) : s[j] \notin CaseIgnorable }
    IN  /\ before # {}
        /\ s[CHOOSE j \in before : \A k \in before : k <= j] \in Cased
        /\ \/ after = {}
           \/ s[CHOOSE j \in after : \A k \in after : j <= k] \notin Cased

\* str.lower()
Lower(s) ==
    Concat([ i \in DOMAIN s |->
               IF s[i] = "U+03A3" /\ FinalSigma(s, i) THEN <<"U+03C2">>
               ELSE LowerChar(s[i]) ])

\* str.endswith(suf)
EndsWith(s, suf) ==
    /\ Len(suf) <= Len(s)
    /\ SubSeq(s, Len(s) - Len(suf) + 1, Len(s)) = suf

\* str.startswith(pre)
StartsWith(s, pre) ==
    /\ Len(pre) <= Len(s)
    /\ SubSeq(s, 1, Len(pre)) = pre

\* sub in s
Contains(s, sub) ==
    \E i \in 1..(Len(s) - Len(sub) + 1) : SubSeq(s, i, i + Len(sub) - 1) = sub

\* str.strip()
Strip(s) ==
    LET nonw == { i \in DOMAIN s : s[i] \notin WhiteChars }
    IN  IF nonw = {} THEN << >>
        ELSE SubSeq(s, CHOOSE i \in nonw : \A j \in nonw : i <= j,
                       CHOOSE i \in nonw : \A j \in nonw : j <= i)

DecimalChars == UNION { Range(r) : r \in DecimalRuns }

\* The value of each decimal digit: its place in its run, from 0.
DigitValOf ==
    [ c \in DecimalChars |->
        LET r == CHOOSE q \in DecimalRuns : c \in Range(q)
        IN  (CHOOSE i \in DOMAIN r : r[i] = c) - 1 ]

IsDecimalChar(c) == c \in DecimalChars

\* str.isdigit()
IsDigit(s) ==
    Len(s) > 0 /\ \A i \in DOMAIN s : IsDecimalChar(s[i]) \/ s[i] \in DigitOnlyChars

\* int(s) raises ValueError on a string for which isdigit() is true: a
\* character is a digit without being decimal, or the text is too long
IntRaises(s) == Len(s) > MaxStrDigits \/ \E i \in DOMAIN s : ~ IsDecimalChar(s[i])

DigitVal(c) == DigitValOf[c]

\* Values of int() are kept up to IntCap: the script only compares them
\* with the length of a list of choices, which is far below it.
IntCap == 100

\* int(s) for a string of decimal digits (leading zeros do not count), or
\* IntCap when the number is larger
ToInt(s) ==
    LET nz == { i \in DOMAIN s : DigitVal(s[i]) # 0 }
        first == CHOOSE i \in nz : \A j \in nz : i <= j
        n == Len(s)
    IN  IF nz = {} THEN 0
        ELSE IF first = n THEN DigitVal(s[n])
        ELSE IF first = n - 1 THEN 10 * DigitVal(s[n - 1]) + DigitVal(s[n])
        ELSE IntCap

RECURSIVE Split(_, _)
\* s.split(sep) for a one-character separator
Split(s, sep) ==
    IF \A i \in DOMAIN s : s[i] # sep THEN << s >>
    ELSE LET k == CHOOSE i \in DOMAIN s : s[i] = sep /\ \A j \in 1..(i-1) : s[j] # sep
         IN  << SubSeq(s, 1, k - 1) >> \o Split(SubSeq(s, k + 1, Len(s)), sep)

RECURSIVE Join(_, _)
\* sep.join(parts)
Join(sep, parts) ==
    IF parts = << >> THEN << >>
    ELSE IF Len(parts) = 1 THEN parts[1]
    ELSE parts[1] \o sep \o Join(sep, Tail(parts))

(***************************************************************************)
(* Categories and the classifier (classify_files, lines 130-146)          *)
(***************************************************************************)
Categories == <<"dts", "config", "drivers", "script", "patch", "other">>

CategorySet == Range(Categories)

S_dts     == <<".","d","t","s">>
S_dtsi    == <<".","d","t","s","i">>
S_config  == <<"c","o","n","f","i","g">>
S_kconfig == <<"k","c","o","n","f","i","g">>
S_drivers == <<"d","r","i","v","e","r","s","/">>
S_c       == <<".","c">>
S_h       == <<".","h">>
S_sh      == <<".","s","h">>
S_py      == <<".","p","y">>
S_pl      == <<".","p","l">>
S_build   == <<"b","u","i","l","d">>
S_script  == <<"s","c","r","i","p","t">>
S_patch   == <<".","p","a","t","c","h">>

\* Mutation: the config rule is tested before the dts rule.
classifyConfigFirst(f) ==
    IF Contains(Lower(f), S_config) \/ Contains(Lower(f), S_kconfig) THEN "config"
    ELSE IF EndsWith(f, S_dts) \/ EndsWith(f, S_dtsi) THEN "dts"
    ELSE IF StartsWith(f, S_drivers) \/ EndsWith(f, S_c) \/ EndsWith(f, S_h) THEN "drivers"
    ELSE IF \/ EndsWith(f, S_sh) \/ EndsWith(f, S_py) \/ EndsWith(f, S_pl)
            \/ Contains(Lower(f), S_build) \/ Contains(Lower(f), S_script) THEN "script"
    ELSE IF EndsWith(f, S_patch) THEN "patch"
    ELSE "other"

\* The if/elif chain of the loop body: the bucket one path is appended to.
classify(f) ==
    IF EndsWith(f, S_dts) \/ EndsWith(f, S_dtsi) THEN "dts"
    ELSE IF Contains(Lower(f), S_config) \/ Contains(Lower(f), S_kconfig) THEN "config"
    ELSE IF StartsWith(f, S_drivers) \/ EndsWith(f, S_c) \/ EndsWith(f, S_h) THEN "drivers"
    ELSE IF \/ EndsWith(f, S_sh) \/ EndsWith(f, S_py) \/ EndsWith(f, S_pl)
            \/ Contains(Lower(f), S_build) \/ Contains(Lower(f), S_script) THEN "script"
    ELSE IF EndsWith(f, S_patch) THEN "patch"
    ELSE "other"

\* classify_files(files): the six lists, each in input order.
classify_files(files) ==
    [ c \in CategorySet |-> SelectSeq(files, LAMBDA f : classify(f) = c) ]


(***************************************************************************)
(* Bounds and input sets                                                   *)
(***************************************************************************)
\* Largest number of paths with changes in the initial working tree.
MaxFiles == 2

\* Largest length of a list handed directly to classify_files.
MaxList == 2

P_a_dts    == <<"a",".","d","t","s">>
P_Kconfig  == <<"K","c","o","n","f","i","g">>
P_b_sh     == <<"b",".","s","h">>
P_z_dtsi   == <<"z",".","d","t","s","i">>

\* Paths of the repository, in the (sorted) order git lists them.
PathPool == << P_a_dts, P_b_sh, P_z_dtsi >>

\* Paths for direct calls of classify_files: every rule, and rule precedence.
ClassifyPool ==
    { P_a_dts, P_Kconfig, P_b_sh, P_z_dtsi,
      <<"c","o","n","f","i","g",".","d","t","s">>,
      <<"s","c","r","i","p","t",".","d","t","s","i">>,
      <<"d","e","f","c","o","n","f","i","g",".","c">>,
      <<"C","O","N","F","I","G",".","s","h">>,
      <<"d","r","i","v","e","r","s","/","x">>,
      <<"x","/","d","r","i","v","e","r","s","/","y">>,
      <<"m",".","c">>, <<"m",".","h">>,
      <<"b","u","i","l","d",".","c">>,
      <<"d","r","i","v","e","r","s","/","r",".","p","y">>,
      <<"t",".","p","y">>, <<"t",".","p","l">>,
      <<"B","u","i","l","d">>,
      <<"S","c","r","i","p","t",".","p","a","t","c","h">>,
      <<"f",".","p","a","t","c","h">>,
      <<"f",".","P","A","T","C","H">>,
      <<"a",".","D","T","S">>,
      <<"d","t","s">>,
      <<"R","E","A","D","M","E">>,
      << >> }

\* What git reports for a path, by its content in HEAD, in the index and in
\* the working tree:
\*   "clean"            the three agree;
\*   "unstaged"         the index agrees with HEAD, the working tree differs;
\*   "staged"           the working tree agrees with the index, HEAD differs;
\*   "both"             the three differ from one another;
\*   "reverted"         the index differs, the working tree is back at
\*                      HEAD's content (staged and unstaged);
\*   "untracked"        in the working tree only;
\*   "uncached"         removed from the index (git rm --cached), still in
\*                      the working tree with HEAD's content (staged and
\*                      untracked);
\*   "uncached_changed" likewise, with a content that differs from HEAD's.
FileStatus ==
    {"clean", "unstaged", "staged", "both", "reverted", "untracked", "uncached",
     "uncached_changed"}

S_unknown == <<"u","n","k","n","o","w","n">>

\* self.valid_cpus, self.valid_machines, self.valid_types (lines 20-22)
valid_cpus ==
    << <<"i","m","x","8","m","m">>, <<"i","m","x","8","m","p">>, <<"i","m","x","9","3">> >>

valid_machines ==
    << <<"R","O","M","-","5","7","2","1">>, <<"R","O","M","-","5","7","2","2">>,
       <<"R","O","M","-","2","8","2","0">> >>

valid_types ==
    << <<"d","t","s">>, <<"d","r","i","v","e","r","s">>, S_config, S_kconfig, S_script,
       <<"p","a","t","c","h">> >>

ResolvedFields == <<"cpu", "machine", "type">>

valid_list(f) ==
    IF f = "cpu" THEN valid_cpus
    ELSE IF f = "machine" THEN valid_machines
    ELSE valid_types


(***************************************************************************)
(* Analysis results (the dict parsed from the service's reply)            *)
(***************************************************************************)
\* Optional values: << >> is None, << v >> is the value v.
None == << >>

Some(v) == << v >>

\* Values of a parsed JSON object: text, null, a number (held as the text
\* str() gives for it), a boolean (likewise), a list of values, an object
\* (the list of its keys, each with its value).  A value is the pair of its
\* type and its content.
Str(s) == << "str", s >>

Null == << "null", << >> >>

Num(text) == << "num", text >>

Bool(b) == << "bool", IF b THEN <<"T","r","u","e">> ELSE <<"F","a","l","s","e">> >>

List(items) == << "list", items >>

Dict(items) == << "dict", items >>

\* str() of the numbers that are zero: 0, 0.0 and -0.0
NumZeros == { <<"0">>, <<"0",".","0">>, <<"-","0",".","0">> }

\* bool(x)
Truthy(x) ==
    IF x[1] = "str" THEN x[2] # << >>
    ELSE IF x[1] = "null" THEN FALSE
    ELSE IF x[1] = "num" THEN x[2] \notin NumZeros
    ELSE IF x[1] = "bool" THEN x[2] = <<"T","r","u","e">>
    ELSE x[2] # << >>

ReprEscapeOf ==
    [ c \in { p[1] : p \in ReprEscapes } |-> (CHOOSE p \in ReprEscapes : p[1] = c)[2] ]

\* One character inside repr() of a text quoted with quote
ReprChar(c, quote) ==
    IF c = "\\" THEN <<"\\", "\\">>
    ELSE IF c = quote THEN <<"\\", quote>>
    ELSE IF c = "\t" THEN <<"\\", "t">>
    ELSE IF c = "\n" THEN <<"\\", "n">>
    ELSE IF c = "\r" THEN <<"\\", "r">>
    ELSE IF c \in DOMAIN ReprEscapeOf THEN ReprEscapeOf[c]
    ELSE << c >>

\* repr() of a text: quoted with ', or with " when the text holds a ' and
\* no "
Repr(s) ==
    LET quote == IF "'" \in Range(s) /\ "\"" \notin Range(s) THEN "\"" ELSE "'"
    IN  << quote >> \o Concat([ i \in DOMAIN s |-> ReprChar(s[i], quote) ]) \o << quote >>

RECURSIVE PyRepr(_)
\* repr(x)
PyRepr(x) ==
    IF x[1] = "str" THEN Repr(x[2])
    ELSE IF x[1] = "null" THEN <<"N","o","n","e">>
    ELSE IF x[1] = "list"
    THEN <<"[">> \o Join(<<",", " ">>, [ i \in DOMAIN x[2] |-> PyRepr(x[2][i]) ]) \o <<"]">>
    ELSE IF x[1] = "dict"
    THEN <<"{">>
         \o Join(<<",", " ">>,
                 [ i \in DOMAIN x[2] |->
                     Repr(x[2][i][1]) \o <<":", " ">> \o PyRepr(x[2][i][2]) ])
         \o <<"}">>
    ELSE x[2]

\* str(x), as an f-string formats x: a text as it is, anything else as
\* repr() shows it
PyStr(x) == IF x[1] = "str" THEN x[2] ELSE PyRepr(x)

T_Fix == <<"F","i","x">>

D_one == List(<< Str(<<"A","d","d"," ","n","o","d","e">>) >>)

\* dict.get(key, default)
Get(d, key, default) == IF key \in DOMAIN d THEN d[key] ELSE default

\* Dicts the service can return.  Each of cpu/machine/type is seen absent,
\* empty, "unknown", a listed value, an unlisted text, null, zero, a
\* non-zero number, false and a list; title is seen absent, blank, padded,
\* "unknown", concrete, null and a number; details absent, an empty list, a
\* list holding an empty text, a list of texts, a list holding a number, a
\* text, a number, an object and null.  cpu is also seen as an object and
\* machine as a list holding a text with a quote.
AnalysisPool ==
    { [cpu |-> Str(valid_cpus[1]), machine |-> Str(valid_machines[1]),
       type |-> Str(valid_types[1]), title |-> Str(T_Fix), details |-> D_one],
      [cpu |-> Str(valid_cpus[1]), machine |-> Str(S_unknown),
       type |-> Str(valid_types[1]), title |-> Str(<<" ">> \o T_Fix \o <<"\r">>),
       details |-> Dict(<< << <<"k">>, Null >> >>)],
      [machine |-> Str(<< >>), type |-> Str(valid_types[2]), title |-> Str(T_Fix),
       details |-> Str(<<"a","b">>)],
      [cpu |-> Str(S_unknown), machine |-> Str(valid_machines[3]), type |-> Num(<<"7">>),
       title |-> Str(<<" ">>), details |-> List(<< >>)],
      [cpu |-> Str(<<"U","n","k","n","o","w","n">>), machine |-> Str(<<" ">>),
       type |-> Str(<< >>), title |-> Str(S_unknown), details |-> List(<< Str(<< >>) >>)],
      [cpu |-> Num(<<"0">>), machine |-> List(<< Str(<<"i","t","'","s">>), Null >>),
       type |-> Str(<<"x">>), title |-> Str(T_Fix), details |-> Null],
      [cpu |-> Dict(<< << <<"a">>, Num(<<"1",".","5">>) >> >>), machine |-> Null,
       type |-> Str(valid_types[1]),
       title |-> Str(T_Fix), details |-> Num(<<"3">>)],
      [cpu |-> Str(valid_cpus[2]), machine |-> Str(valid_machines[2]),
       type |-> Bool(FALSE), title |-> Str(T_Fix), details |-> List(<< Num(<<"1">>) >>)],
      [cpu |-> Num(<<"0",".","0">>), machine |-> Str(valid_machines[2]),
       type |-> List(<< >>), title |-> Null, details |-> D_one],
      [cpu |-> Str(valid_cpus[3]), machine |-> Bool(TRUE), title |-> Num(<<"4">>)] }

\* What the POST can produce: an exception, or a status with a message
\* content that holds no braces, unparsable text between the braces, or an
\* object (possibly wrapped in prose).
Responses ==
    { [kind |-> "exception", status |-> 0, content |-> "none", obj |-> << >>],
      [kind |-> "http", status |-> 500, content |-> "object", obj |-> << >>],
      [kind |-> "http", status |-> 200, content |-> "nobrace", obj |-> << >>],
      [kind |-> "http", status |-> 200, content |-> "malformed", obj |-> << >>],
      [kind |-> "http", status |-> 200, content |-> "object", obj |-> << >>] }
    \cup { [kind |-> "http", status |-> 200, content |-> "object", obj |-> d] :
           d \in AnalysisPool }

\* extract_json_from_markdown (lines 24-35)
extract_json_from_markdown(resp) ==
    IF resp.content = "object" THEN Some(resp.obj) ELSE None

\* analyze_with_azure_openai (lines 37-106): the value returned
analyze_with_azure_openai(resp) ==
    IF resp.kind = "exception" THEN None
    ELSE IF resp.status = 200 THEN extract_json_from_markdown(resp)
    ELSE None

\* `not analysis` (line 213): None or an empty dict
NotAnalysis(a) == a = None \/ DOMAIN a[1] = {}

\* Mutation: the sentinel "unknown" is not tested.
UndeterminedEmptyOnly(x) == ~ Truthy(x)

\* The condition of lines 217-219 that sends a field to manual_select:
\* not (x and x != "unknown")
Undetermined(x) == ~ (Truthy(x) /\ ~ (x[1] = "str" /\ x[2] = S_unknown))

\* One pass of the loop of manual_select (lines 163-176) on the line typed:
\* it returns a value, prints "Invalid input" and loops ("retry"), or int()
\* raises ValueError.
manual_select(raw, valid) ==
    LET choice == Strip(raw)
    IN  IF IsDigit(choice) /\ IntRaises(choice)
        THEN [kind |-> "raise", value |-> << >>]
        ELSE IF IsDigit(choice) /\ 1 <= ToInt(choice) /\ ToInt(choice) <= Len(valid)
        THEN [kind |-> "return", value |-> valid[ToInt(choice)]]
        ELSE IF choice \in Range(valid) THEN [kind |-> "return", value |-> choice]
        ELSE IF choice # << >> THEN [kind |-> "return", value |-> choice]
        ELSE [kind |-> "retry", value |-> << >>]

\* Lines typed at a manual_select prompt.
SelectAnswers ==
    { << >>, <<" ">>, <<"\r">>, <<"U+00A0">>, <<" ","2"," ">>, <<"U+0662">>, <<"9">>,
      S_unknown, <<"U+00B2">> }

\* Lines typed at the title prompt.
TitleAnswers == { <<"\f">>, <<" ","T"," ">> }

\* Lines typed at the details prompt.
DetailAnswers == { <<" ",","," ">>, <<"a",","," ",",","b"," ">> }

\* Lines typed at the y/n prompts.
YesNoAnswers == { <<"y">>, <<"Y">>, <<"n">>, <<"y","e","s">>, << >> }

\* Mutation: any answer counts as yes.
IsYesAlways(ans) == TRUE

\* input(...).lower() == 'y' (lines 230 and 295)
IsYes(ans) == Lower(ans) = <<"y">>

\* [d.strip() for d in detail_input.split(",") if d.strip()] (line 224)
ParseDetails(detail_input) ==
    LET parts == Split(detail_input, ",")
        stripped == [ i \in DOMAIN parts |-> Strip(parts[i]) ]
        kept == SelectSeq(stripped, LAMBDA d : d # << >>)
    IN  List([ i \in DOMAIN kept |-> Str(kept[i]) ])

\* "\n".join(details) raises TypeError: details is not iterable, or holds
\* something that is not text
JoinRaises(details) ==
    \/ details[1] \in {"num", "bool", "null"}
    \/ details[1] = "list" /\ \E i \in DOMAIN details[2] : details[2][i][1] # "str"

\* The items "\n".join(details) joins: the texts of a list, the characters
\* of a text, the keys of an object
JoinItems(details) ==
    IF details[1] = "str" THEN [ i \in DOMAIN details[2] |-> << details[2][i] >> ]
    ELSE IF details[1] = "dict" THEN [ i \in DOMAIN details[2] |-> details[2][i][1] ]
    ELSE [ i \in DOMAIN details[2] |-> details[2][i][2] ]

\* The commit message of line 225
AssembleMessage(cpu, machine, change_type, title, details) ==
    <<"[">> \o PyStr(cpu) \o <<"]","[">> \o PyStr(machine) \o <<"]","[">>
        \o PyStr(change_type) \o <<"]"," ">> \o title \o <<"\n","\n">>
        \o Join(<<"\n">>, JoinItems(details))

(***************************************************************************)
(* git and the process environment                                         *)
(***************************************************************************)
\* Directory reached by os.chdir(repo_path) from directory cwd, by the kind
\* of repo_path:
\*   "fixed"  an absolute path, or a relative one that names the repository
\*            from the start directory and from inside the repository alike
\*            (../repo from a sibling directory);
\*   "dot"    the path "." with the run started in the repository: every
\*            chdir stays where it is ("start" is the repository);
\*   "child"  a relative path that names the repository only from the start
\*            directory and nothing from inside it ("missing": chdir raises
\*            FileNotFoundError).
Chdir(cwd, kind) ==
    IF kind = "fixed" THEN "repo"
    ELSE IF kind = "dot" THEN cwd
    ELSE IF cwd = "start" THEN "repo"
    ELSE "missing"

\* Paths staged after `git add files`: the index entry of each path of
\* files becomes the working tree's, so a path whose working tree differs
\* from HEAD is staged and one whose working tree is at HEAD (atHeadSet) is
\* not.
AddStaged(stagedSet, unstagedSet, untrackedSet, atHeadSet, files) ==
    (stagedSet \cup (Range(files) \cap (unstagedSet \cup untrackedSet)))
        \ (Range(files) \cap atHeadSet)

\* Text printed by `git diff [--cached] files` when the paths in changedSet
\* differ: one hunk per differing path of files, nothing for the others.
DiffText(files, changedSet) ==
    Concat([ i \in DOMAIN files |->
               IF files[i] \in changedSet THEN <<"@","\n">> ELSE << >> ])

\* get_diff_for_files (lines 148-159): staged + "\n" + unstaged
DiffContent(files, stagedSet, unstagedSet) ==
    IF files = << >> THEN << >>
    ELSE DiffText(files, stagedSet) \o <<"\n">> \o DiffText(files, unstagedSet)

\* Mutation: the diff text is tested without strip().
IsBlankNoStrip(text) == text = << >>

\* `not diff_content.strip()` (line 209)
IsBlank(text) == Strip(text) = << >>

\* Paths recorded by `git commit -m msg` (line 186, no path arguments):
\* everything the index holds.
CommitIndex(stagedSet, files) == stagedSet

\* Rename pairs left in renameSet after `git add files`: the index entry of a
\* path of files that differed from the working tree (unstaged or untracked)
\* takes the working tree's content, so its pairs become those of treeSet;
\* an old path that was untracked is back in the index and is the old of no
\* pair any more.
AddRenames(renameSet, treeSet, unstagedSet, untrackedSet, files) ==
    LET touched == Range(files) \cap (unstagedSet \cup untrackedSet)
    IN  { p \in { q \in renameSet : q[2] \notin touched }
                  \cup { q \in treeSet : q[2] \in touched } :
            p[1] \notin Range(files) \cap untrackedSet }

\* Names printed by `git diff --cached --name-only` (line 117): the staged
\* paths, except that a staged deletion git pairs with a staged new file of
\* similar content is shown as a rename, under the new name only.
StagedNames(stagedSet, unstagedSet, renameSet) ==
    stagedSet \ { p[1] : p \in { q \in renameSet :
                                   /\ q[1] \in stagedSet \ unstagedSet
                                   /\ q[2] \in stagedSet } }

\* All lists holding each element of the set S exactly once (list(set)).
Orderings(S) ==
    { q \in UNION { [1..n -> S] : n \in {Cardinality(S)} } :
        \A i, j \in DOMAIN q : i # j => q[i] # q[j] }

\* splitlines() of a git listing: the paths of S in git's order.
Listing(S) == SelectSeq(PathPool, LAMBDA f : f \in S)

(***************************************************************************)
(* State                                                                   *)
(***************************************************************************)
VARIABLES
    pc,             \* position in main / process_category
    outcome,        \* how the run ended ("running" while it has not)
    envOk,          \* OPENAI_API_KEY and OPENAI_ENDPOINT are both set
    repoValid,      \* repo_path and repo_path/.git are directories
    pathKind,       \* how repo_path resolves: "fixed", "dot" or "child"
    cwd,            \* the process's current directory
    untracked,      \* git: untracked paths
    unstaged,       \* git: paths whose working tree differs from the index
    staged,         \* git: paths whose index differs from HEAD
    treeAtHead,     \* git: staged paths whose working tree agrees with HEAD
    renames,        \* git: pairs <<old, new>>: old is in HEAD and missing from
                    \*      the index or from the working tree, new is in the
                    \*      index and not in HEAD, and git finds new's content
                    \*      in the index similar to old's content in HEAD
    treeRenames,    \* git: the same pairs for new's content in the working
                    \*      tree
    commits,        \* git: commits created, each with the paths it records
    changed_files,  \* main: changed_files
    untracked_files,\* main: untracked_files
    buckets,        \* main: the six lists returned by classify_files
    catIdx,         \* main: index in Categories of the category in turn
    diff_content,   \* process_category: diff_content
    analysis,       \* process_category: analysis (None or Some(dict))
    field,          \* process_category: cpu, machine, change_type
    title,          \* process_category: title
    details,        \* process_category: details
    commit_message, \* process_category: commit_message
    answer,         \* the line typed at the last y/n prompt
    resolverCalled, \* fields for which manual_select ran in this category
    entered,        \* categories for which process_category was called
    result,         \* how process_category returned, per category
    addCalls,       \* `git add` runs made by execute_commit, per category
    commitCalls,    \* `git commit` runs, per category
    pushCalls,      \* `git push` runs
    effects,        \* kinds of side effect so far: "git", "http", "prompt"
    repoAccessed,   \* repo_path was looked at on the file system
    lastOp          \* last GitCommitAPI operation that changes directory

vars ==
    << pc, outcome, envOk, repoValid, pathKind, cwd, untracked, unstaged, staged,
       treeAtHead, renames, treeRenames, commits, changed_files, untracked_files,
       buckets, catIdx, diff_content,
       analysis, field, title, details, commit_message, answer, resolverCalled,
       entered, result, addCalls, commitCalls, pushCalls, effects, repoAccessed,
       lastOp >>

gitVars == << untracked, unstaged, staged, treeAtHead, renames, treeRenames, commits >>

envVars == << envOk, repoValid, pathKind >>

localVars ==
    << diff_content, analysis, field, title, details, commit_message, answer,
       resolverCalled >>

countVars == << addCalls, commitCalls, pushCalls >>

NoOp == [name |-> "none", entry |-> "start", exit |-> "start", ok |-> TRUE]

NoFields == [ f \in Range(ResolvedFields) |-> Null ]

NoBuckets == [ c \in CategorySet |-> << >> ]

\* Values of everything that main has not yet touched.
Fresh ==
    /\ outcome = "running"
    /\ cwd = "start"
    /\ commits = << >>
    /\ untracked_files = << >>
    /\ buckets = NoBuckets
    /\ catIdx = 0
    /\ diff_content = << >>
    /\ analysis = None
    /\ field = NoFields
    /\ title = << >>
    /\ details = Null
    /\ commit_message = << >>
    /\ answer = << >>
    /\ resolverCalled = {}
    /\ entered = {}
    /\ result = [ c \in CategorySet |-> "none" ]
    /\ addCalls = [ c \in CategorySet |-> 0 ]
    /\ commitCalls = [ c \in CategorySet |-> 0 ]
    /\ pushCalls = 0
    /\ effects = {}
    /\ repoAccessed = FALSE
    /\ lastOp = NoOp

\* Working trees: a status for every path, at most MaxFiles of them changed.
WorkTrees ==
    { w \in [Range(PathPool) -> FileStatus] :
        Cardinality({ f \in Range(PathPool) : w[f] # "clean" }) <= MaxFiles }

\* The rename pairs a working tree can hold, as << renames, treeRenames >>.
\* The old path of a pair is in HEAD and deleted: from the working tree
\* ("unstaged", "staged" and "both" are then a deletion, a staged deletion
\* and a deletion after a staged change) or from the index alone
\* ("uncached", "uncached_changed").  The new path is not in HEAD: untracked,
\* added ("staged"), added and then changed ("both") or added and then
\* removed from the working tree ("reverted").  Its content in the index is
\* compared for renames and its content in the working tree for
\* treeRenames; the two are the same content when the path is "staged".
\* No path is in two pairs of one set.
RenameSets(w) ==
    LET olds == { f \in Range(PathPool) :
                    w[f] \in {"unstaged", "staged", "both", "uncached",
                              "uncached_changed"} }
        inIndex == { f \in Range(PathPool) : w[f] \in {"staged", "both", "reverted"} }
        inTree == { f \in Range(PathPool) : w[f] \in {"untracked", "staged", "both"} }
        Pairs(news) ==
            { R \in SUBSET { p \in olds \X news : p[1] # p[2] } :
                \A p, q \in R : p # q => {p[1], p[2]} \cap {q[1], q[2]} = {} }
    IN  { rr \in Pairs(inIndex) \X Pairs(inTree) :
            /\ \A p \in rr[1] \cup rr[2] :
                  w[p[2]] = "staged" => (p \in rr[1] /\ p \in rr[2])
            /\ \A p, q \in rr[1] \cup rr[2] : p[1] # q[2] }

\* A run of main on some repository, environment and repo_path.
Init ==
    /\ pc = "start"
    /\ envOk \in BOOLEAN
    /\ repoValid \in BOOLEAN
    /\ pathKind \in {"fixed", "dot", "child"}
    /\ \E w \in WorkTrees :
         /\ (~ repoValid) => (\A f \in Range(PathPool) : w[f] = "clean")
         /\ untracked = { f \in Range(PathPool) :
                            w[f] \in {"untracked", "uncached", "uncached_changed"} }
         /\ unstaged = { f \in Range(PathPool) :
                           w[f] \in {"unstaged", "both", "reverted"} }
         /\ staged = { f \in Range(PathPool) :
                         w[f] \in {"staged", "both", "reverted", "uncached",
                                   "uncached_changed"} }
         /\ treeAtHead = { f \in Range(PathPool) : w[f] \in {"reverted", "uncached"} }
         /\ \E rr \in RenameSets(w) : renames = rr[1] /\ treeRenames = rr[2]
    /\ changed_files = << >>
    /\ Fresh


(***************************************************************************)
(* main, up to the classification (lines 233-280)                         *)
(***************************************************************************)
Crash(kind) == pc' = "crashed" /\ outcome' = kind

Return(kind) == pc' = "done" /\ outcome' = kind

\* get_changed_files (lines 108-120) entered in directory dir: what it
\* raises (or "no"), the directory it leaves the process in, and its value.
get_changed_files(dir, ok, order) ==
    IF Chdir(dir, pathKind) = "missing"
    THEN [raised |-> "FileNotFoundError", exit |-> dir, value |-> << >>, git |-> FALSE]
    ELSE IF ~ ok
    THEN [raised |-> "CalledProcessError", exit |-> Chdir(dir, pathKind),
          value |-> << >>, git |-> TRUE]
    ELSE [raised |-> "no", exit |-> dir, value |-> order, git |-> TRUE]

\* get_untracked_files (lines 122-128), likewise
get_untracked_files(dir, ok) ==
    IF Chdir(dir, pathKind) = "missing"
    THEN [raised |-> "FileNotFoundError", exit |-> dir, value |-> << >>, git |-> FALSE]
    ELSE IF ~ ok
    THEN [raised |-> "CalledProcessError", exit |-> Chdir(dir, pathKind),
          value |-> << >>, git |-> TRUE]
    ELSE [raised |-> "no", exit |-> dir, value |-> Listing(untracked), git |-> TRUE]

\* get_diff_for_files (lines 148-159), likewise; no directory change and no
\* git command for an empty list
get_diff_for_files(dir, files, ok) ==
    IF files = << >>
    THEN [raised |-> "no", exit |-> dir, value |-> << >>, git |-> FALSE]
    ELSE IF Chdir(dir, pathKind) = "missing"
    THEN [raised |-> "FileNotFoundError", exit |-> dir, value |-> << >>, git |-> FALSE]
    ELSE IF ~ ok
    THEN [raised |-> "CalledProcessError", exit |-> Chdir(dir, pathKind),
          value |-> << >>, git |-> TRUE]
    ELSE [raised |-> "no", exit |-> dir,
          value |-> DiffContent(files, staged, unstaged), git |-> TRUE]

Effect(r) == IF r.git THEN effects \cup {"git"} ELSE effects

OpRecord(name, dir, r) ==
    [name |-> name, entry |-> dir, exit |-> r.exit, ok |-> r.raised = "no"]

\* Lines 237-243: the repository check, then the GitCommitAPI constructor.
Start ==
    /\ pc = "start"
    /\ repoAccessed' = TRUE
    /\ IF ~ repoValid THEN Return("invalid_repo")
       ELSE IF ~ envOk THEN Crash("ValueError")
       ELSE pc' = "l246" /\ outcome' = outcome
    /\ UNCHANGED << envVars, cwd, gitVars, changed_files, untracked_files, buckets,
                    catIdx, localVars, entered, result, countVars, effects, lastOp >>

\* Line 246: changed_files = committer.get_changed_files(repo_path)
GetChangedFiles ==
    /\ pc = "l246"
    /\ \E ok \in BOOLEAN,
          order \in Orderings(unstaged \cup StagedNames(staged, unstaged, renames)) :
         LET r == get_changed_files(cwd, ok, order)
         IN  /\ lastOp' = OpRecord("get_changed_files", cwd, r)
             /\ cwd' = r.exit
             /\ effects' = Effect(r)
             /\ IF r.raised # "no"
                THEN Crash(r.raised) /\ UNCHANGED changed_files
                ELSE pc' = "l249" /\ outcome' = outcome /\ changed_files' = r.value
    /\ UNCHANGED << envVars, gitVars, untracked_files, buckets, catIdx, localVars,
                    entered, result, countVars, repoAccessed >>

\* Line 249: untracked_files = committer.get_untracked_files(repo_path)
GetUntrackedFiles ==
    /\ pc = "l249"
    /\ \E ok \in BOOLEAN :
         LET r == get_untracked_files(cwd, ok)
         IN  /\ lastOp' = OpRecord("get_untracked_files", cwd, r)
             /\ cwd' = r.exit
             /\ effects' = Effect(r)
             /\ IF r.raised # "no"
                THEN Crash(r.raised) /\ UNCHANGED untracked_files
                ELSE pc' = "l250" /\ outcome' = outcome /\ untracked_files' = r.value
    /\ UNCHANGED << envVars, gitVars, changed_files, buckets, catIdx, localVars,
                    entered, result, countVars, repoAccessed >>

\* `git add files` run by main inside try/finally (lines 253-256, 266-269):
\* on failure the finally clause restores the directory and the error
\* propagates; on success the process stays in the repository for the
\* refresh that follows.
MainGitAdd(files, next) ==
    \E ok \in BOOLEAN :
        IF Chdir(cwd, pathKind) = "missing"
        THEN Crash("FileNotFoundError") /\ UNCHANGED << cwd, gitVars, effects >>
        ELSE /\ effects' = effects \cup {"git"}
             /\ IF ok
                THEN /\ staged' = AddStaged(staged, unstaged, untracked, treeAtHead, files)
                     /\ treeAtHead' = treeAtHead \ Range(files)
                     /\ renames' = AddRenames(renames, treeRenames, unstaged,
                                              untracked, files)
                     /\ treeRenames' = AddRenames(treeRenames, treeRenames, unstaged,
                                                  untracked, files)
                     /\ unstaged' = unstaged \ Range(files)
                     /\ untracked' = untracked \ Range(files)
                     /\ cwd' = Chdir(cwd, pathKind)
                     /\ pc' = next /\ outcome' = outcome
                     /\ UNCHANGED commits
                ELSE Crash("CalledProcessError") /\ UNCHANGED << cwd, gitVars >>

\* Lines 250-257: untracked files are staged without asking.
AutoAddUntracked ==
    /\ pc = "l250"
    /\ IF untracked_files = << >>
       THEN pc' = "l264" /\ UNCHANGED << outcome, cwd, gitVars, effects >>
       ELSE MainGitAdd(untracked_files, "l259")
    /\ UNCHANGED << envVars, changed_files, untracked_files, buckets, catIdx,
                    localVars, entered, result, countVars, repoAccessed, lastOp >>

\* Lines 259-261 and 272-274: changed_files is refreshed inside the try
\* block, with the process already in the repository; the finally clause
\* then returns to the directory main started in.
RefreshChangedFiles(at, next) ==
    /\ pc = at
    /\ \E ok \in BOOLEAN,
          order \in Orderings(unstaged \cup StagedNames(staged, unstaged, renames)) :
         LET r == get_changed_files(cwd, ok, order)
         IN  /\ lastOp' = OpRecord("get_changed_files", cwd, r)
             /\ cwd' = "start"
             /\ effects' = Effect(r)
             /\ IF r.raised # "no"
                THEN Crash(r.raised) /\ UNCHANGED changed_files
                ELSE pc' = next /\ outcome' = outcome /\ changed_files' = r.value
    /\ UNCHANGED << envVars, gitVars, untracked_files, buckets, catIdx, localVars,
                    entered, result, countVars, repoAccessed >>

RefreshAfterUntracked == RefreshChangedFiles("l259", "l264")

\* Lines 264-270: every changed file is staged without asking.
AutoAddChanged ==
    /\ pc = "l264"
    /\ IF changed_files = << >>
       THEN pc' = "l276" /\ UNCHANGED << outcome, cwd, gitVars, effects >>
       ELSE MainGitAdd(changed_files, "l272")
    /\ UNCHANGED << envVars, changed_files, untracked_files, buckets, catIdx,
                    localVars, entered, result, countVars, repoAccessed, lastOp >>

RefreshAfterChanged == RefreshChangedFiles("l272", "l276")

\* Lines 276-280: stop when nothing changed, otherwise classify.
Classify ==
    /\ pc = "l276"
    /\ IF changed_files = << >>
       THEN Return("no_changes") /\ UNCHANGED << buckets, catIdx >>
       ELSE /\ buckets' = classify_files(changed_files)
            /\ catIdx' = 1
            /\ pc' = "category" /\ outcome' = outcome
    /\ UNCHANGED << envVars, cwd, gitVars, changed_files, untracked_files, localVars,
                    entered, result, countVars, effects, repoAccessed, lastOp >>


(***************************************************************************)
(* process_category (lines 205-231) and the category sequence of main     *)
(* (lines 282-293)                                                         *)
(***************************************************************************)
Cat == Categories[catIdx]

\* process_category returns (or is not called): locals are dropped and main
\* goes on to the next `if`, or to the push prompt after the last one.
NextCategory ==
    /\ catIdx' = catIdx + 1
    /\ pc' = IF catIdx = Len(Categories) THEN "l295" ELSE "category"
    /\ outcome' = outcome
    /\ diff_content' = << >>
    /\ analysis' = None
    /\ field' = NoFields
    /\ title' = << >>
    /\ details' = Null
    /\ commit_message' = << >>
    /\ answer' = << >>
    /\ resolverCalled' = {}

\* `if dts_files:` ... is false: process_category is not called.
SkipEmptyBucket ==
    /\ pc = "category"
    /\ buckets[Cat] = << >>
    /\ NextCategory
    /\ UNCHANGED << envVars, cwd, gitVars, changed_files, untracked_files, buckets,
                    entered, result, countVars, effects, repoAccessed, lastOp >>

\* Lines 205-211: process_category is called, fetches the diff of the
\* bucket's files and returns with the "No diff" notice when it is blank.
EnterCategory ==
    /\ pc = "category"
    /\ buckets[Cat] # << >>
    /\ entered' = entered \cup {Cat}
    /\ \E ok \in BOOLEAN :
         LET r == get_diff_for_files(cwd, buckets[Cat], ok)
         IN  /\ lastOp' = OpRecord("get_diff_for_files", cwd, r)
             /\ cwd' = r.exit
             /\ effects' = Effect(r)
             /\ IF r.raised # "no"
                THEN /\ Crash(r.raised)
                     /\ UNCHANGED << catIdx, localVars, result >>
                ELSE IF IsBlank(r.value)
                THEN /\ result' = [result EXCEPT ![Cat] = "nodiff"]
                     /\ NextCategory
                ELSE /\ diff_content' = r.value
                     /\ pc' = "l212" /\ outcome' = outcome
                     /\ UNCHANGED << catIdx, analysis, field, title, details,
                                     commit_message, answer, resolverCalled, result >>
    /\ UNCHANGED << envVars, gitVars, changed_files, untracked_files, buckets,
                    countVars, repoAccessed >>

\* Lines 212-215: the request to the service; a failed analysis ends the
\* category.
Analyze ==
    /\ pc = "l212"
    /\ effects' = effects \cup {"http"}
    /\ \E resp \in Responses :
         LET a == analyze_with_azure_openai(resp)
         IN  IF NotAnalysis(a)
             THEN /\ result' = [result EXCEPT ![Cat] = "noanalysis"]
                  /\ NextCategory
             ELSE /\ analysis' = a
                  /\ pc' = "cpu" /\ outcome' = outcome
                  /\ UNCHANGED << catIdx, diff_content, field, title, details,
                                  commit_message, answer, resolverCalled, result >>
    /\ UNCHANGED << envVars, cwd, gitVars, changed_files, untracked_files, buckets,
                    entered, countVars, repoAccessed, lastOp >>

AfterField(f) == IF f = "cpu" THEN "machine" ELSE IF f = "machine" THEN "type" ELSE "l220"

\* Lines 217-219, one field: a determined value is taken from the analysis.
TakeField(f) ==
    /\ pc = f
    /\ ~ Undetermined(Get(analysis[1], f, Str(<< >>)))
    /\ field' = [field EXCEPT ![f] = Get(analysis[1], f, Str(<< >>))]
    /\ pc' = AfterField(f)
    /\ UNCHANGED << outcome, envVars, cwd, gitVars, changed_files, untracked_files,
                    buckets, catIdx, diff_content, analysis, title, details,
                    commit_message, answer, resolverCalled, entered, result,
                    countVars, effects, repoAccessed, lastOp >>

\* Lines 217-219, one field: an undetermined value is asked for; one line
\* typed at the prompt of manual_select settles it, is rejected, or makes
\* int() raise ValueError, which nothing catches.
ManualSelect(f) ==
    /\ pc = f
    /\ Undetermined(Get(analysis[1], f, Str(<< >>)))
    /\ resolverCalled' = resolverCalled \cup {f}
    /\ effects' = effects \cup {"prompt"}
    /\ \E raw \in SelectAnswers :
         LET r == manual_select(raw, valid_list(f))
         IN  IF r.kind = "raise"
             THEN Crash("ValueError") /\ UNCHANGED field
             ELSE IF r.kind = "retry"
             THEN UNCHANGED << pc, outcome, field >>
             ELSE /\ field' = [field EXCEPT ![f] = Str(r.value)]
                  /\ pc' = AfterField(f) /\ outcome' = outcome
    /\ UNCHANGED << envVars, cwd, gitVars, changed_files, untracked_files,
                    buckets, catIdx, diff_content, analysis, title, details,
                    commit_message, answer, entered, result, countVars,
                    repoAccessed, lastOp >>

\* Line 220: the stripped title of the analysis, or one line typed by the
\* user; a title that is not text has no strip() (AttributeError).
ResolveTitle ==
    /\ pc = "l220"
    /\ LET t == Get(analysis[1], "title", Str(<< >>))
       IN  IF t[1] # "str"
           THEN Crash("AttributeError") /\ UNCHANGED << title, effects >>
           ELSE /\ pc' = "l221" /\ outcome' = outcome
                /\ IF Strip(t[2]) # << >>
                   THEN title' = Strip(t[2]) /\ UNCHANGED effects
                   ELSE /\ effects' = effects \cup {"prompt"}
                        /\ \E raw \in TitleAnswers : title' = Strip(raw)
    /\ UNCHANGED << envVars, cwd, gitVars, changed_files, untracked_files,
                    buckets, catIdx, diff_content, analysis, field, details,
                    commit_message, answer, resolverCalled, entered, result,
                    countVars, repoAccessed, lastOp >>

\* Lines 221-229: the details of the analysis, or one comma-separated line
\* typed by the user; then the message is assembled and shown.  Details
\* that cannot be joined raise TypeError.
ResolveDetails ==
    /\ pc = "l221"
    /\ LET d == Get(analysis[1], "details", List(<< >>))
       IN  IF Truthy(d)
           THEN details' = d /\ UNCHANGED effects
           ELSE /\ effects' = effects \cup {"prompt"}
                /\ \E raw \in DetailAnswers : details' = ParseDetails(Strip(raw))
    /\ IF JoinRaises(details')
       THEN Crash("TypeError") /\ UNCHANGED commit_message
       ELSE /\ commit_message' =
                 AssembleMessage(field["cpu"], field["machine"], field["type"],
                                 title, details')
            /\ pc' = "l230" /\ outcome' = outcome
    /\ UNCHANGED << envVars, cwd, gitVars, changed_files, untracked_files,
                    buckets, catIdx, diff_content, analysis, field, title, answer,
                    resolverCalled, entered, result, countVars, repoAccessed, lastOp >>

\* Line 230: the confirmation prompt; anything but y/Y declines.
Confirm ==
    /\ pc = "l230"
    /\ effects' = effects \cup {"prompt"}
    /\ \E raw \in YesNoAnswers :
         IF IsYes(raw)
         THEN /\ answer' = raw
              /\ pc' = "l231" /\ outcome' = outcome
              /\ UNCHANGED << catIdx, diff_content, analysis, field, title, details,
                              commit_message, resolverCalled, result >>
         ELSE /\ result' = [result EXCEPT ![Cat] = "declined"]
              /\ NextCategory
    /\ UNCHANGED << envVars, cwd, gitVars, changed_files, untracked_files, buckets,
                    entered, countVars, repoAccessed, lastOp >>

\* Line 231 and execute_commit (lines 178-193): `git add` of the bucket's
\* files, then `git commit -m`; a failing command is caught and reported,
\* and the finally clause restores the directory.  os.chdir (line 183) is
\* before the try: its FileNotFoundError is not caught.  The commit records
\* every path whose index entry differs from HEAD (a rename is the deletion
\* of the old path and the addition of the new one); HEAD then holds the
\* index, so that no path is staged and no rename pair is left.
ExecuteCommit ==
    /\ pc = "l231"
    /\ LET files == buckets[Cat]
           index == AddStaged(staged, unstaged, untracked, treeAtHead, files)
       IN  IF files = << >>
           THEN /\ result' = [result EXCEPT ![Cat] = "commit_error"]
                /\ NextCategory
                /\ UNCHANGED << gitVars, addCalls, commitCalls, effects, lastOp >>
           ELSE IF Chdir(cwd, pathKind) = "missing"
           THEN /\ Crash("FileNotFoundError")
                /\ lastOp' = [name |-> "execute_commit", entry |-> cwd, exit |-> cwd,
                              ok |-> FALSE]
                /\ UNCHANGED << gitVars, addCalls, commitCalls, effects, catIdx,
                                localVars, result >>
           ELSE /\ NextCategory
                /\ \E okAdd \in BOOLEAN, okCommit \in BOOLEAN :
                   /\ effects' = effects \cup {"git"}
                   /\ lastOp' = [name |-> "execute_commit", entry |-> cwd, exit |-> cwd,
                                 ok |-> okAdd /\ okCommit /\ index # {}]
                   /\ addCalls' = [addCalls EXCEPT ![Cat] = @ + 1]
                   /\ IF ~ okAdd
                      THEN /\ result' = [result EXCEPT ![Cat] = "commit_error"]
                           /\ UNCHANGED << gitVars, commitCalls >>
                      ELSE /\ commitCalls' = [commitCalls EXCEPT ![Cat] = @ + 1]
                           /\ unstaged' = unstaged \ Range(files)
                           /\ untracked' = untracked \ Range(files)
                           /\ IF okCommit /\ index # {}
                              THEN /\ commits' = Append(commits,
                                          [category |-> Cat,
                                           files |-> CommitIndex(index, files)])
                                   /\ staged' = index \ CommitIndex(index, files)
                                   /\ treeAtHead' = (treeAtHead \ Range(files))
                                                       \cap staged'
                                   /\ renames' = {}
                                   /\ treeRenames' = {}
                                   /\ result' = [result EXCEPT ![Cat] = "committed"]
                              ELSE /\ staged' = index
                                   /\ treeAtHead' = treeAtHead \ Range(files)
                                   /\ renames' = AddRenames(renames, treeRenames,
                                                            unstaged, untracked, files)
                                   /\ treeRenames' = AddRenames(treeRenames, treeRenames,
                                                                unstaged, untracked, files)
                                   /\ commits' = commits
                                   /\ result' = [result EXCEPT ![Cat] = "commit_error"]
    /\ UNCHANGED << envVars, cwd, changed_files, untracked_files, buckets, entered,
                    pushCalls, repoAccessed >>

(***************************************************************************)
(* The push (lines 295-296 and push_changes, lines 195-203)               *)
(***************************************************************************)
\* Line 295: the single push prompt.
PushPrompt ==
    /\ pc = "l295"
    /\ effects' = effects \cup {"prompt"}
    /\ \E raw \in YesNoAnswers :
         /\ answer' = raw
         /\ IF IsYes(raw) THEN pc' = "l296" /\ outcome' = outcome
            ELSE Return("finished")
    /\ UNCHANGED << envVars, cwd, gitVars, changed_files, untracked_files, buckets,
                    catIdx, diff_content, analysis, field, title, details,
                    commit_message, resolverCalled, entered, result, countVars,
                    repoAccessed, lastOp >>

\* push_changes: `git push` with cwd=repo_path; a failure is caught.
PushChanges ==
    /\ pc = "l296"
    /\ pushCalls' = pushCalls + 1
    /\ effects' = effects \cup {"git"}
    /\ Return("finished")
    /\ UNCHANGED << envVars, cwd, gitVars, changed_files, untracked_files, buckets,
                    catIdx, localVars, entered, result, addCalls, commitCalls,
                    repoAccessed, lastOp >>

Next ==
    \/ Start
    \/ GetChangedFiles
    \/ GetUntrackedFiles
    \/ AutoAddUntracked
    \/ RefreshAfterUntracked
    \/ AutoAddChanged
    \/ RefreshAfterChanged
    \/ Classify
    \/ SkipEmptyBucket
    \/ EnterCategory
    \/ Analyze
    \/ \E f \in Range(ResolvedFields) : TakeField(f)
    \/ \E f \in Range(ResolvedFields) : ManualSelect(f)
    \/ ResolveTitle
    \/ ResolveDetails
    \/ Confirm
    \/ ExecuteCommit
    \/ PushPrompt
    \/ PushChanges

Spec == Init /\ [][Next]_vars


(***************************************************************************)
(* Direct calls of classify_files on arbitrary lists of paths             *)
(***************************************************************************)
\* Lists of at most MaxList paths (repetitions allowed).
PathLists == UNION { [1..n -> ClassifyPool] : n \in 0..MaxList }

InitClassify ==
    /\ pc = "call_classify_files"
    /\ changed_files \in PathLists
    /\ envOk = TRUE
    /\ repoValid = TRUE
    /\ pathKind = "fixed"
    /\ untracked = {}
    /\ unstaged = {}
    /\ staged = {}
    /\ treeAtHead = {}
    /\ renames = {}
    /\ treeRenames = {}
    /\ Fresh

\* classify_files(files) is called and returns its six lists.
ClassifyCall ==
    /\ pc = "call_classify_files"
    /\ buckets' = classify_files(changed_files)
    /\ pc' = "classified"
    /\ UNCHANGED << outcome, envVars, cwd, gitVars, changed_files, untracked_files,
                    catIdx, localVars, entered, result, countVars, effects,
                    repoAccessed, lastOp >>

NextClassify == ClassifyCall

SpecClassify == InitClassify /\ [][NextClassify]_vars


(***************************************************************************)
(* Properties                                                              *)
(***************************************************************************)
CatIndex(c) == CHOOSE i \in DOMAIN Categories : Categories[i] = c

Terminated == pc \in {"done", "crashed"}

\* C1: every commit created for a category records changes of that
\* category's bucket files only, and of no file of another bucket.
C1_CommitHoldsOnlyBucketFiles ==
    \A i \in DOMAIN commits :
        commits[i].files \subseteq Range(buckets[commits[i].category])

\* C2: once the buckets exist, whatever happens in one category (blank diff,
\* failed analysis, decline, failed diff/add/commit command), every category
\* with a non-empty bucket is entered and the run reaches the push prompt.
C2_NoCategoryBlocksLaterOnes ==
    (Terminated /\ catIdx >= 1) =>
        /\ \A c \in CategorySet : buckets[c] # << >> => c \in entered
        /\ outcome = "finished"

\* C3: process_category runs `git add`/`git commit` only with a non-blank
\* diff, a non-null analysis and an affirmative answer to the confirmation
\* prompt; a category that ended with a blank diff, a null analysis or a
\* decline has had no `git add` and no `git commit`.
C3_CommitOnlyWhenDiffAnalysisAndYes ==
    [][ /\ (addCalls' # addCalls \/ commitCalls' # commitCalls) =>
             /\ Strip(diff_content) # << >>
             /\ analysis # None
             /\ Lower(answer) = <<"y">>
             /\ \A c \in CategorySet \ {Cat} :
                  addCalls'[c] = addCalls[c] /\ commitCalls'[c] = commitCalls[c]
        /\ \A c \in CategorySet :
             result'[c] \in {"nodiff", "noanalysis", "declined"} =>
                 addCalls'[c] = 0 /\ commitCalls'[c] = 0 ]_vars

C3_Witness ==
    /\ \E c \in CategorySet : result[c] = "committed" /\ commitCalls[c] = 1
    /\ \E c \in CategorySet : result[c] = "declined"

\* C4: when the commit message is assembled, cpu, machine, type and title
\* are non-empty and not "unknown", and details is non-empty.
C4_AssembledFieldsConcrete ==
    pc = "l230" =>
        /\ \A f \in Range(ResolvedFields) :
             PyStr(field[f]) # << >> /\ PyStr(field[f]) # S_unknown
        /\ title # << >> /\ title # S_unknown
        /\ details[2] # << >>

\* C5: `git push` runs at most once, only after the user answered y/Y to the
\* push prompt, and only after every category with files has been processed.
C5_PushOnceAfterConfirmation ==
    /\ pushCalls <= 1
    /\ (pushCalls = 1 \/ pc = "l296") =>
         /\ Lower(answer) = <<"y">>
         /\ catIdx = Len(Categories) + 1
         /\ \A c \in CategorySet : buckets[c] # << >> => result[c] # "none"

C5_Witness ==
    /\ pushCalls = 1
    /\ Cardinality(entered) >= 2
    /\ commits = << >>

\* C6: with a credential missing the run ends with the configuration error,
\* before the repository path is looked at and before any git command, HTTP
\* request or prompt, whatever the repository path is.
C6_ConfigErrorBeforeRepoAccess ==
    (~ envOk /\ pc # "start") =>
        /\ outcome = "ValueError"
        /\ ~ repoAccessed
        /\ effects = {}

\* The rules of the classifier, in order; the last one always matches.
Rule(i, f) ==
    IF i = 1 THEN EndsWith(f, <<".","d","t","s">>) \/ EndsWith(f, <<".","d","t","s","i">>)
    ELSE IF i = 2 THEN \/ Contains(Lower(f), <<"c","o","n","f","i","g">>)
                       \/ Contains(Lower(f), <<"k","c","o","n","f","i","g">>)
    ELSE IF i = 3 THEN \/ StartsWith(f, <<"d","r","i","v","e","r","s","/">>)
                       \/ EndsWith(f, <<".","c">>) \/ EndsWith(f, <<".","h">>)
    ELSE IF i = 4 THEN \/ EndsWith(f, <<".","s","h">>) \/ EndsWith(f, <<".","p","y">>)
                       \/ EndsWith(f, <<".","p","l">>)
                       \/ Contains(Lower(f), <<"b","u","i","l","d">>)
                       \/ Contains(Lower(f), <<"s","c","r","i","p","t">>)
    ELSE IF i = 5 THEN EndsWith(f, <<".","p","a","t","c","h">>)
    ELSE TRUE

FirstRule(f) == CHOOSE i \in 1..6 : Rule(i, f) /\ \A j \in 1..(i-1) : ~ Rule(j, f)

\* C7: classify_files puts every input path in exactly one bucket, the one
\* of the first matching rule in the order dts, config, drivers, script,
\* patch, other; a path ending in .dts/.dtsi is always in dts.
C7_ClassifyPartitionsByFirstRule ==
    pc = "classified" =>
        /\ \A c \in CategorySet : \A i \in DOMAIN buckets[c] :
             /\ buckets[c][i] \in Range(changed_files)
             /\ Categories[FirstRule(buckets[c][i])] = c
        /\ \A i \in DOMAIN changed_files :
             /\ Cardinality({ c \in CategorySet : changed_files[i] \in Range(buckets[c]) }) = 1
             /\ (EndsWith(changed_files[i], <<".","d","t","s">>)
                   \/ EndsWith(changed_files[i], <<".","d","t","s","i">>))
                => changed_files[i] \in Range(buckets["dts"])
        /\ Len(buckets["dts"]) + Len(buckets["config"]) + Len(buckets["drivers"])
             + Len(buckets["script"]) + Len(buckets["patch"]) + Len(buckets["other"])
           = Len(changed_files)

C7_Witness ==
    /\ pc = "classified"
    /\ Len(changed_files) = 2
    /\ changed_files[1] = <<"c","o","n","f","i","g",".","d","t","s">>
    /\ buckets["dts"] = << changed_files[1] >>
    /\ buckets["script"] = << <<"S","c","r","i","p","t",".","p","a","t","c","h">> >>

\* The analysis value of a field is absent, the empty text or "unknown".
FieldUndetermined(f) ==
    \/ f \notin DOMAIN analysis[1]
    \/ /\ analysis[1][f][1] = "str"
       /\ analysis[1][f][2] \in { << >>, <<"u","n","k","n","o","w","n">> }

\* The analysis value of a field is one Python takes for false: null, zero,
\* false, an empty list or an empty object.
FieldFalsy(f) ==
    /\ f \in DOMAIN analysis[1]
    /\ \/ analysis[1][f][1] = "null"
       \/ analysis[1][f][1] = "num" /\ analysis[1][f][2] \in NumZeros
       \/ analysis[1][f][1] = "bool" /\ analysis[1][f][2] = <<"F","a","l","s","e">>
       \/ analysis[1][f][1] \in {"list", "dict"} /\ analysis[1][f][2] = << >>

FieldsResolved == pc \in {"l220", "l221", "l230", "l231"}

FieldIsText(f, txt) == field[f][1] = "str" /\ field[f][2] = txt

\* C8 as stated: manual_select runs for a field exactly when its analysis
\* value is absent, empty or "unknown"; a determined value is used verbatim;
\* and no field of the assembled message is empty or "unknown".
C8_Original ==
    FieldsResolved =>
        \A f \in Range(ResolvedFields) :
            /\ (f \in resolverCalled) <=> FieldUndetermined(f)
            /\ (f \notin resolverCalled) => field[f] = analysis[1][f]
            /\ ~ FieldIsText(f, << >>)
            /\ ~ FieldIsText(f, <<"u","n","k","n","o","w","n">>)

\* C8 amended: manual_select runs for a field exactly when its analysis
\* value is absent, the empty text, "unknown", or a value Python takes for
\* false (null, zero, false, an empty list or object); any other is used verbatim
\* and without prompting; an undetermined value is replaced by the answer
\* given to manual_select, which is a non-empty text, so that "unknown" is
\* in the message only when the user typed it at the prompt.
C8_ResolverIffUndetermined ==
    /\ FieldsResolved =>
         \A f \in Range(ResolvedFields) :
             /\ (f \in resolverCalled) <=> (FieldUndetermined(f) \/ FieldFalsy(f))
             /\ (f \notin resolverCalled) => field[f] = analysis[1][f]
             /\ (f \in resolverCalled) => field[f][1] = "str"
             /\ ~ FieldIsText(f, << >>)
             /\ FieldIsText(f, <<"u","n","k","n","o","w","n">>) => f \in resolverCalled
    /\ pc \in {"l230", "l231"} =>
         \E rest \in {SubSeq(commit_message, i, Len(commit_message)) :
                        i \in 1..(Len(commit_message) + 1)} :
             commit_message =
                 <<"[">> \o PyStr(field["cpu"]) \o <<"]","[">> \o PyStr(field["machine"])
                     \o <<"]","[">> \o PyStr(field["type"]) \o <<"]"," ">> \o rest

C8_Witness ==
    /\ pc = "l230"
    /\ resolverCalled = {"machine"}
    /\ field["cpu"] = analysis[1]["cpu"]
    /\ analysis[1]["machine"][2] = <<"u","n","k","n","o","w","n">>
    /\ field["machine"][2] = valid_machines[2]

\* C9: at most one commit succeeds in a run; once it has, no later
\* category gets past the diff check, and every later category with files
\* is skipped with the "No diff" notice.
C9_OneCommitThenNoDiff ==
    /\ Len(commits) <= 1
    /\ commits # << >> =>
         LET k == CatIndex(commits[1].category)
         IN  /\ catIdx > k =>
                  pc \notin {"l212", "cpu", "machine", "type", "l220", "l221", "l230", "l231"}
             /\ \A c \in CategorySet :
                  (CatIndex(c) > k /\ result[c] # "none") => result[c] = "nodiff"
             /\ Terminated =>
                  \A c \in CategorySet :
                      (CatIndex(c) > k /\ buckets[c] # << >>) => result[c] = "nodiff"

\* C10: get_changed_files, get_untracked_files, get_diff_for_files and
\* execute_commit leave the current directory as it was on entry, whether
\* the git command succeeded or failed.
C10_DirectoryRestored ==
    lastOp.name \in {"get_changed_files", "get_untracked_files",
                     "get_diff_for_files", "execute_commit"}
        => lastOp.exit = lastOp.entry

====
